---- MODULE Spec2Model ----
(***************************************************************************)
(* Background jobs of the stock-exchange game (backend/src/app/scheduler.py)*)
(* price tick, snapshot/ranking with the market open/after-hours state     *)
(* machine, snapshot retention, and the scheduler's per-job instance limit.*)
(*                                                                         *)
(* Prices are integers (one unit = the smallest price step of the model);  *)
(* Python's None is the integer None below, which no price, rank or        *)
(* counter can take.                                                       *)
(***************************************************************************)
EXTENDS Integers, Sequences, FiniteSets, TLC

VARIABLES
    \* ---- persisted store ----
    stocks,        \* ticker -> Stock row
    market,        \* the MarketState row with id 1 (present = FALSE: no row)
    events,        \* ticker -> sequence of PriceEvent rows, in insertion order
    rows,          \* set of StockSnapshot rows [id, ticker, created_at, price]
    next_id,       \* next autoincrement id of StockSnapshot
    clock,         \* datetime.now(UTC), a logical time
    \* ---- settings ----
    spd,           \* settings.snapshots_per_market_day
    ahs,           \* settings.after_hours_snapshots
    retention,     \* settings.snapshot_retention
    \* ---- tick_prices invocation (its session) ----
    tk_pc, tk_objs, tk_orig, tk_ms,
    \* ---- snapshot_prices invocation (its session) ----
    sn_pc, sn_order, sn_objs, previous_stocks, sn_ms, previous_market_state,
    rt_before,     \* the StockSnapshot table as the last cleanup found it
    rt_done,       \* the cleanup was the last operation on the table
    rt_runs,       \* cleanups since the last insert (counted up to 2)
    \* ---- invocation budgets and history ----
    ticks_left, snaps_left, boots, since_close,
    open_starts,   \* per market day, the committed snapshot invocations
                   \* that started with the market open
    \* ---- scheduler ----
    instances, fired, skipped, submitted,
    \* ---- ranking pass on its own ----
    rk_in, rk_out,
    \* ---- process_ai_tasks: the AITask table, the settings the AI client
    \*      reads, and the invocation (its session) ----
    tasks,         \* AITask rows, tasks[i] being the row of id i
    ai_settings,   \* atlascloud_api_key, google_ai_api_key, force_google_ai
    ai_pc, ai_list, ai_i, ai_objs,
    ai_orig,       \* the rows as the invocation's SELECT loaded them
    ai_env,        \* id -> what the providers and the disk did for the task
    ai_t0,         \* the time of the invocation's SELECT
    ai_calls,      \* the provider calls of the invocation, in call order
    ai_left,       \* pipeline invocations still to start
    \* ---- one call of the AI client on its own ----
    cl_in, cl_out,
    \* ---- jobs run through timed_task ----
    tt_pc,
    tt_stats,      \* the query counters <<query count, query time>>
    tt_call,       \* the call of the wrapper: perf_counter at its start, and
                   \* what the wrapped job did
    tt_out,        \* what the wrapper returned or raised
    tt_log         \* the timing records logged, in order

storeVars == <<stocks, market, events, rows, next_id, clock>>
cfgVars   == <<spd, ahs, retention>>
retVars   == <<rt_before, rt_done, rt_runs>>
tickVars  == <<tk_pc, tk_objs, tk_orig, tk_ms>>
snapVars  == <<sn_pc, sn_order, sn_objs, previous_stocks, sn_ms,
               previous_market_state>>
histVars  == <<ticks_left, snaps_left, boots, since_close, open_starts>>
schedVars == <<instances, fired, skipped, submitted>>
rankVars  == <<rk_in, rk_out>>
aiVars    == <<tasks, ai_settings, ai_pc, ai_list, ai_i, ai_objs, ai_orig,
               ai_env, ai_t0, ai_calls, ai_left>>
clientVars == <<cl_in, cl_out>>
timedVars == <<tt_pc, tt_stats, tt_call, tt_out, tt_log>>
pipeVars  == <<aiVars, clientVars, timedVars>>
vars == <<storeVars, cfgVars, tickVars, snapVars, retVars, histVars, schedVars,
         rankVars, pipeVars>>

----------------------------------------------------------------------------
(* Bounds of the model *)
MaxTicks == 1          \* price-tick invocations explored
MaxSnaps == 1          \* snapshot invocations explored
MainRetention == 2     \* snapshot_retention of the jobs' runs
SerialTicks == 1       \* price-tick invocations of a run without overlap
SerialSnaps == 3       \* snapshot invocations of a run without overlap
MaxFires == 3          \* trigger firings per scheduled job
MaxRankN == 3          \* stocks in one ranking pass
MaxRows == 4           \* StockSnapshot rows inserted before and between cleanups
MaxRetention == 2      \* snapshot_retention ranges over 0..MaxRetention
MaxRuns == 2           \* process_ai_tasks invocations explored
MaxClock == 3          \* the last time of a pipeline run (the first is 1)
MaxCalls == 2          \* jobs run through timed_task, one after the other
AdminTicks == 1        \* price-tick invocations of a run with admin updates
AdminSnaps == 1        \* snapshot invocations of a run with admin updates
MaxAdmin == 1          \* admin price updates of a run

None == -1

Tickers    == {"A", "B"}
InitPrices == {0, 100}

(* the stocks created before the jobs start, as <<prices, is_active>>: no
   active stock, or two active stocks of equal or of different prices *)
InitStocks ==
    {<<[t \in Tickers |-> 100], [t \in Tickers |-> FALSE]>>,
     <<[t \in Tickers |-> 100], [t \in Tickers |-> TRUE]>>,
     <<[t \in Tickers |-> IF t = "A" THEN 100 ELSE 0],
       [t \in Tickers |-> TRUE]>>}

(* settings.after_hours_volatility_multiplier, as the fraction Num/Den *)
AfterHoursMultNum == 1
AfterHoursMultDen == 2
(* the 0.05 of tick_prices, as the fraction Num/Den *)
TickPctNum == 5
TickPctDen == 100

----------------------------------------------------------------------------
(* Rows *)

NewStock(p, active) ==
    [price |-> p, max_price |-> None, min_price |-> None,
     reference_price |-> None,
     rank |-> None, change_rank |-> None,
     previous_rank |-> None, previous_change_rank |-> None,
     is_active |-> active]

StockFields == {"price", "max_price", "min_price", "reference_price", "rank",
                "change_rank", "previous_rank", "previous_change_rank",
                "is_active"}

(* MarketState(id=1): closed, all counters zero *)
DefaultMarketState ==
    [present |-> TRUE, is_open |-> FALSE, market_day_count |-> 0,
     snapshot_count |-> 0, after_hours_snapshot_count |-> 0]

NoMarketState == [DefaultMarketState EXCEPT !.present = FALSE]

ActiveTickersAll == Tickers

ActiveTickers == {t \in Tickers : stocks[t].is_active}

(* session.commit(): the flush writes, for every object of the session, the
   attributes whose value differs from the value loaded *)
WriteNothing(db, objs, orig) == db

WriteAll(db, objs, orig) ==
    [t \in Tickers |-> IF t \in DOMAIN objs THEN objs[t] ELSE db[t]]

WriteDirty(db, objs, orig) ==
    [t \in Tickers |->
        IF t \in DOMAIN objs
        THEN [f \in StockFields |->
                 IF objs[t][f] # orig[t][f] THEN objs[t][f] ELSE db[t][f]]
        ELSE db[t]]

Empty == <<>>

Abs(x) == IF x < 0 THEN 0 - x ELSE x
Max0(x) == IF x < 0 THEN 0 ELSE x

----------------------------------------------------------------------------
(* _get_or_create_market_state *)

(* the SELECT: the row, or None *)
SelectMarketState == market

(* the INSERT of MarketState(id=1) and its commit succeed iff no row with
   id 1 exists by then *)
CanInsertMarketState == ~market.present

----------------------------------------------------------------------------
(* tick_prices *)

(* volatility_multiplier as <<numerator, denominator>> *)
VolatilityMultiplierWhenOpen(ms) ==
    IF ms.is_open THEN <<AfterHoursMultNum, AfterHoursMultDen>> ELSE <<1, 1>>

VolatilityMultiplier(ms) ==
    IF ~ms.is_open THEN <<AfterHoursMultNum, AfterHoursMultDen>> ELSE <<1, 1>>

(* max_delta = stock.price * 0.05 * volatility_multiplier, rounded towards
   zero to a whole price step *)
MaxDeltaNoMultiplier(price, mult) == (price * TickPctNum) \div TickPctDen

MaxDelta(price, mult) ==
    (price * TickPctNum * mult[1]) \div (TickPctDen * mult[2])

(* random.uniform(-max_delta, max_delta): the two ends of the range *)
DeltasAtLeastOne(price, mult) ==
    {0 - MaxDelta(price, mult) - 1, MaxDelta(price, mult) + 1}

Deltas(price, mult) ==
    {0 - MaxDelta(price, mult), MaxDelta(price, mult)}

(* the loop body for one stock *)
TickStock(s, delta) ==
    LET new_price == Max0(s.price + delta)
    IN  [s EXCEPT
            !.price = new_price,
            !.max_price = IF s.max_price = None \/ new_price > s.max_price
                          THEN new_price ELSE s.max_price,
            !.min_price = IF s.min_price = None \/ new_price < s.min_price
                          THEN new_price ELSE s.min_price]

(* the PriceEvent of the loop body *)
RandomEventOfReference(s) ==
    [price |-> s.reference_price, change_type |-> "RANDOM"]

RandomEvent(s) == [price |-> s.price, change_type |-> "RANDOM"]

(* the objects the commit of tick_prices flushes: every stock of the loop *)
TickFlushedSome(objs) ==
    IF Cardinality(DOMAIN objs) > 1
    THEN {CHOOSE t \in DOMAIN objs : TRUE}
    ELSE DOMAIN objs

TickFlushed(objs) == DOMAIN objs

TickLoad ==
    /\ tk_pc = "idle"
    /\ ticks_left > 0
    /\ ticks_left' = ticks_left - 1
    /\ IF ActiveTickers = {}
       THEN /\ tk_pc' = "returned"
            /\ UNCHANGED <<tk_objs, tk_orig, tk_ms>>
       ELSE /\ tk_pc' = "stocks"
            /\ tk_objs' = [t \in ActiveTickers |-> stocks[t]]
            /\ tk_orig' = [t \in ActiveTickers |-> stocks[t]]
            /\ UNCHANGED tk_ms
    /\ UNCHANGED <<storeVars, cfgVars, snapVars, retVars, snaps_left, boots,
                   since_close, open_starts, schedVars, rankVars, pipeVars>>

TickReadMarket ==
    /\ tk_pc = "stocks"
    /\ tk_ms' = SelectMarketState
    /\ tk_pc' = IF SelectMarketState.present THEN "ready" ELSE "create"
    /\ UNCHANGED <<storeVars, cfgVars, tk_objs, tk_orig, snapVars,
                   retVars, histVars, schedVars, rankVars, pipeVars>>

TickCreateMarket ==
    /\ tk_pc = "create"
    /\ IF CanInsertMarketState
       THEN /\ market' = DefaultMarketState
            /\ tk_ms' = DefaultMarketState
            /\ tk_pc' = "ready"
            /\ UNCHANGED <<tk_objs, tk_orig>>
       ELSE \* IntegrityError out of session.commit(): the invocation raises
            /\ tk_pc' = "conflict"
            /\ UNCHANGED <<market, tk_objs, tk_orig, tk_ms>>
    /\ UNCHANGED <<stocks, events, rows, next_id, clock, cfgVars, snapVars,
                   retVars, histVars, schedVars, rankVars, pipeVars>>

TickCommit ==
    /\ tk_pc = "ready"
    /\ LET mult == VolatilityMultiplier(tk_ms)
           all  == UNION {Deltas(tk_objs[t].price, mult) : t \in DOMAIN tk_objs}
       IN  \E d \in [DOMAIN tk_objs -> all] :
             /\ \A t \in DOMAIN tk_objs : d[t] \in Deltas(tk_objs[t].price, mult)
             /\ LET objs == [t \in DOMAIN tk_objs |-> TickStock(tk_objs[t], d[t])]
                    done == TickFlushed(objs)
                IN  /\ tk_objs' = objs
                    /\ stocks' = WriteDirty(stocks,
                                    [t \in done |-> objs[t]], tk_orig)
                    /\ events' = [t \in Tickers |->
                                    IF t \in done
                                    THEN Append(events[t], RandomEvent(objs[t]))
                                    ELSE events[t]]
    /\ tk_pc' = "committed"
    /\ UNCHANGED <<market, rows, next_id, clock, cfgVars, tk_orig, tk_ms,
                   snapVars, retVars, histVars, schedVars, rankVars, pipeVars>>

(* an exception before the commit (a store error): nothing is committed *)
TickFail ==
    /\ tk_pc \in {"stocks", "create", "ready"}
    /\ tk_pc' = "raised"
    /\ UNCHANGED <<storeVars, cfgVars, tk_objs, tk_orig, tk_ms, snapVars,
                   retVars, histVars, schedVars, rankVars, pipeVars>>

(* ws_manager.broadcast_stocks_update: returns, or raises *)
TickBroadcast ==
    /\ tk_pc = "committed"
    /\ tk_pc' \in {"returned", "raised"}
    /\ UNCHANGED <<storeVars, cfgVars, tk_objs, tk_orig, tk_ms, snapVars,
                   retVars, histVars, schedVars, rankVars, pipeVars>>

(* the session closes (rolling back what is uncommitted) and timed_task
   passes the return or the exception on to the scheduler *)
TickExit ==
    /\ tk_pc \in {"returned", "raised", "conflict"}
    /\ tk_pc' = "idle"
    /\ tk_objs' = Empty /\ tk_orig' = Empty /\ tk_ms' = NoMarketState
    /\ UNCHANGED <<storeVars, cfgVars, snapVars, retVars, histVars, schedVars,
                   rankVars, pipeVars>>

----------------------------------------------------------------------------
(* Stock.percentage_change and _update_rankings *)

(* percentage_change is None when no reference price is set; otherwise it is
   (price - reference_price) / reference_price * 100, kept as the exact
   fraction <<numerator, denominator>> with a positive denominator (a
   reference price of 0 gives the fraction 0/1) *)
PctDefined(s) == s.reference_price # None

Pct(s) ==
    IF s.reference_price = 0
    THEN <<0, 1>>
    ELSE <<(s.price - s.reference_price) * 100, s.reference_price>>

FracLess(x, y) == x[1] * y[2] < y[1] * x[2]

(* change_sort_key: (1, 0.0) without a percentage change, else (0, -pct) *)
ChangeKeyNoneAsZero(s) ==
    IF ~PctDefined(s) THEN <<0, <<0, 1>>>>
    ELSE <<0, <<0 - Pct(s)[1], Pct(s)[2]>>>>

ChangeKey(s) ==
    IF ~PctDefined(s) THEN <<1, <<0, 1>>>>
    ELSE <<0, <<0 - Pct(s)[1], Pct(s)[2]>>>>

(* a sorts strictly before b: by price descending, or by change_sort_key *)
BeforeAscending(mode, a, b) ==
    IF mode = "price"
    THEN a.price < b.price
    ELSE \/ ChangeKey(a)[1] < ChangeKey(b)[1]
         \/ /\ ChangeKey(a)[1] = ChangeKey(b)[1]
            /\ FracLess(ChangeKey(a)[2], ChangeKey(b)[2])

Before(mode, a, b) ==
    IF mode = "price"
    THEN a.price > b.price
    ELSE \/ ChangeKey(a)[1] < ChangeKey(b)[1]
         \/ /\ ChangeKey(a)[1] = ChangeKey(b)[1]
            /\ FracLess(ChangeKey(a)[2], ChangeKey(b)[2])

(* sorted(): a stable sort, as the sequence of the list's indices *)
RECURSIVE Insert(_, _, _, _)
Insert(mode, list, sorted, i) ==
    IF sorted = <<>> THEN <<i>>
    ELSE IF Before(mode, list[i], list[Head(sorted)])
         THEN <<i>> \o sorted
         ELSE <<Head(sorted)>> \o Insert(mode, list, Tail(sorted), i)

RECURSIVE Sorted(_, _, _)
Sorted(mode, list, n) ==
    IF n = 0 THEN <<>> ELSE Insert(mode, list, Sorted(mode, list, n - 1), n)

(* enumerate(sorted, start=1): the number given to the list's i-th stock *)
EnumerateFrom0(sorted, i) ==
    (CHOOSE k \in 1..Len(sorted) : sorted[k] = i) - 1

Enumerate(sorted, i) ==
    CHOOSE k \in 1..Len(sorted) : sorted[k] = i

UpdateRankings(list) ==
    LET n         == Len(list)
        by_price  == Sorted("price", list, n)
        by_change == Sorted("change", list, n)
    IN  [i \in 1..n |->
            [list[i] EXCEPT
                !.previous_rank = list[i].rank,
                !.previous_change_rank = list[i].change_rank,
                !.rank = Enumerate(by_price, i),
                !.change_rank = Enumerate(by_change, i)]]

----------------------------------------------------------------------------
(* The market state machine of snapshot_prices *)

IsBootstrapWheneverClosed(ms) == ~ms.is_open

IsBootstrap(ms) ==
    ms.market_day_count = 0 /\ ms.snapshot_count = 0 /\ ~ms.is_open

(* the reference reset of one stock at a market open *)
ResetReference(s) ==
    [s EXCEPT !.reference_price = s.price,
              !.max_price = s.price,
              !.min_price = s.price]

(* the market day is complete *)
DayCompleteStrict(ms) == ms.snapshot_count + 1 > spd

DayComplete(ms) == ms.snapshot_count + 1 >= spd

(* the after-hours period is complete *)
AfterHoursCompleteStrict(ms) == ms.after_hours_snapshot_count + 1 > ahs

AfterHoursComplete(ms) == ms.after_hours_snapshot_count + 1 >= ahs

(* "If no after-hours period, immediately open next market day" *)
NoAfterHoursIgnored == FALSE

NoAfterHours == ahs = 0

(* "Update market state based on current phase" *)
PhaseKeepsCount(ms) ==
    IF ms.is_open
    THEN IF DayComplete(ms)
         THEN LET closed == [ms EXCEPT
                                !.market_day_count = ms.market_day_count + 1,
                                !.snapshot_count = ms.snapshot_count + 1,
                                !.is_open = FALSE,
                                !.after_hours_snapshot_count = 0]
              IN  IF NoAfterHours THEN [closed EXCEPT !.is_open = TRUE]
                  ELSE closed
         ELSE [ms EXCEPT !.snapshot_count = ms.snapshot_count + 1]
    ELSE IF AfterHoursComplete(ms)
         THEN [ms EXCEPT !.is_open = TRUE,
                         !.after_hours_snapshot_count = 0]
         ELSE [ms EXCEPT !.after_hours_snapshot_count =
                             ms.after_hours_snapshot_count + 1]

Phase(ms) ==
    IF ms.is_open
    THEN IF DayComplete(ms)
         THEN LET closed == [ms EXCEPT
                                !.market_day_count = ms.market_day_count + 1,
                                !.snapshot_count = 0,
                                !.is_open = FALSE,
                                !.after_hours_snapshot_count = 0]
              IN  IF NoAfterHours THEN [closed EXCEPT !.is_open = TRUE]
                  ELSE closed
         ELSE [ms EXCEPT !.snapshot_count = ms.snapshot_count + 1]
    ELSE IF AfterHoursComplete(ms)
         THEN [ms EXCEPT !.is_open = TRUE,
                         !.after_hours_snapshot_count = 0]
         ELSE [ms EXCEPT !.after_hours_snapshot_count =
                             ms.after_hours_snapshot_count + 1]

(* the phase update runs one of its two reference-reset loops *)
PhaseOpensAlways(ms) == TRUE

PhaseOpens(ms) ==
    IF ms.is_open
    THEN DayComplete(ms) /\ NoAfterHours
    ELSE AfterHoursComplete(ms)

----------------------------------------------------------------------------
(* _cleanup_old_snapshots *)

Partition(rs, r) == {x \in rs : x.ticker = r.ticker}

(* row_number() OVER (PARTITION BY ticker ORDER BY created_at DESC): the
   numbers a row may get; rows of equal created_at come in either order *)
RowNumbers(rs, r) ==
    (Cardinality({x \in Partition(rs, r) : x.created_at > r.created_at}) + 1)
    .. Cardinality({x \in Partition(rs, r) : x.created_at >= r.created_at})

RECURSIVE Numberings(_, _)
Numberings(rs, todo) ==
    IF todo = {} THEN {Empty}
    ELSE LET r == CHOOSE x \in todo : TRUE
         IN  {f @@ (r :> k) :
                 f \in Numberings(rs, todo \ {r}),
                 k \in RowNumbers(rs, r)}

(* the numberings the window function can produce *)
Ranked(rs) ==
    {rn \in Numberings(rs, rs) :
        \A x, y \in rs :
            (x # y /\ x.ticker = y.ticker) => rn[x] # rn[y]}

(* keep_ids_query: ranked.c.rn <= retention *)
KeepIdsOffByOne(rs, rn) == {r.id : r \in {x \in rs : rn[x] < retention}}

KeepIdsButOldest(rs, rn) ==
    {r.id : r \in {x \in rs : rn[x] <= retention
                               /\ rn[x] < Cardinality(Partition(rs, x))}}

KeepIds(rs, rn) == {r.id : r \in {x \in rs : rn[x] <= retention}}

(* delete(StockSnapshot).where(id NOT IN keep_ids_query): what remains *)
AfterDelete(rs, rn) == {r \in rs : r.id \in KeepIds(rs, rn)}

----------------------------------------------------------------------------
(* snapshot_prices *)

(* the orders in which the SELECT may return a set of tickers *)
Orders(S) ==
    {o \in [1..Cardinality(S) -> S] : \A i, j \in DOMAIN o : i # j => o[i] # o[j]}

SnapLoad ==
    /\ sn_pc = "idle"
    /\ snaps_left > 0
    /\ snaps_left' = snaps_left - 1
    /\ IF ActiveTickers = {}
       THEN /\ sn_pc' = "returned"
            /\ UNCHANGED <<sn_order, sn_objs, previous_stocks, sn_ms,
                           previous_market_state>>
       ELSE /\ sn_pc' = "stocks"
            /\ sn_order' \in Orders(ActiveTickers)
            /\ sn_objs' = [t \in ActiveTickers |-> stocks[t]]
            /\ UNCHANGED <<previous_stocks, sn_ms, previous_market_state>>
    /\ UNCHANGED <<storeVars, cfgVars, tickVars, retVars, ticks_left, boots,
                   since_close, open_starts, schedVars, rankVars, pipeVars>>

SnapReadMarket ==
    /\ sn_pc = "stocks"
    /\ sn_ms' = SelectMarketState
    /\ sn_pc' = IF SelectMarketState.present THEN "ready" ELSE "create"
    /\ UNCHANGED <<storeVars, cfgVars, tickVars, sn_order, sn_objs,
                   previous_stocks, previous_market_state, retVars,
                   histVars, schedVars, rankVars, pipeVars>>

SnapKeep ==
    UNCHANGED <<sn_order, sn_objs, previous_stocks, sn_ms,
                previous_market_state>>

SnapCreateMarket ==
    /\ sn_pc = "create"
    /\ IF CanInsertMarketState
       THEN /\ market' = DefaultMarketState
            /\ sn_ms' = DefaultMarketState
            /\ sn_pc' = "ready"
            /\ UNCHANGED <<sn_order, sn_objs, previous_stocks,
                           previous_market_state>>
       ELSE \* IntegrityError out of session.commit(): the invocation raises
            /\ sn_pc' = "conflict"
            /\ SnapKeep
            /\ UNCHANGED market
    /\ UNCHANGED <<stocks, events, rows, next_id, clock, cfgVars, tickVars,
                   retVars, histVars, schedVars, rankVars, pipeVars>>

(* the stocks of the session as the list the SELECT returned *)
AsList(order, objs) == [i \in DOMAIN order |-> objs[order[i]]]

(* the StockSnapshot rows of the loop over the stocks: one per stock, of the
   price the session's object holds *)
SnapshotsButFirst(order, objs, id, now) ==
    {[id |-> id + i - 1, ticker |-> order[i], created_at |-> now,
      price |-> objs[order[i]].price] : i \in DOMAIN order \ {1}}

Snapshots(order, objs, id, now) ==
    {[id |-> id + i - 1, ticker |-> order[i], created_at |-> now,
      price |-> objs[order[i]].price] : i \in DOMAIN order}

(* previous_stocks: the dictionary, keyed by ticker, of copies of the stocks
   of the list *)
PreviousStocksAliased(order, stks) ==
    [t \in {order[i] : i \in DOMAIN order} |->
        UpdateRankings(stks)[CHOOSE i \in DOMAIN order : order[i] = t]]

PreviousStocks(order, stks) ==
    [t \in {order[i] : i \in DOMAIN order} |->
        stks[CHOOSE i \in DOMAIN order : order[i] = t]]

(* from the capture of the previous state to session.commit() *)
SnapCommit ==
    /\ sn_pc = "ready"
    /\ LET ranked == UpdateRankings(AsList(sn_order, sn_objs))
           byT    == [t \in DOMAIN sn_objs |->
                        ranked[CHOOSE i \in DOMAIN sn_order : sn_order[i] = t]]
           boot   == IsBootstrap(sn_ms)
           ms1    == IF boot THEN [sn_ms EXCEPT !.is_open = TRUE] ELSE sn_ms
           objs1  == IF boot
                     THEN [t \in DOMAIN byT |-> ResetReference(byT[t])]
                     ELSE byT
           ms2    == Phase(ms1)
           objs2  == IF PhaseOpens(ms1)
                     THEN [t \in DOMAIN objs1 |-> ResetReference(objs1[t])]
                     ELSE objs1
           n      == Len(sn_order)
       IN  /\ previous_stocks' =
                 PreviousStocks(sn_order, AsList(sn_order, sn_objs))
           /\ previous_market_state' = sn_ms
           /\ sn_objs' = objs2
           /\ sn_ms' = ms2
           /\ stocks' = WriteDirty(stocks, objs2, sn_objs)
           /\ market' = ms2
           /\ rows' = rows \cup Snapshots(sn_order, objs1, next_id, clock)
           /\ next_id' = next_id + n
           /\ clock' = clock + 1
           /\ boots' = boots + (IF boot THEN 1 ELSE 0)
           /\ since_close' = IF ms1.is_open THEN 0 ELSE since_close + 1
           /\ open_starts' =
                 LET day == sn_ms.market_day_count + 1
                     len == IF sn_ms.is_open /\ day > ms2.market_day_count
                            THEN day ELSE ms2.market_day_count
                 IN  [d \in 1..len |->
                        (IF d \in DOMAIN open_starts THEN open_starts[d] ELSE 0)
                        + (IF sn_ms.is_open /\ d = day THEN 1 ELSE 0)]
    /\ sn_pc' = "committed"
    /\ rt_done' = FALSE /\ rt_runs' = 0
    /\ UNCHANGED <<events, cfgVars, tickVars, sn_order, rt_before,
                   ticks_left, snaps_left, schedVars, rankVars, pipeVars>>

(* an exception before the commit (a store error): nothing is committed *)
SnapFail ==
    /\ sn_pc \in {"stocks", "create", "ready"}
    /\ sn_pc' = "raised"
    /\ SnapKeep
    /\ UNCHANGED <<storeVars, cfgVars, tickVars, retVars, histVars,
                   schedVars, rankVars, pipeVars>>

(* broadcast_stocks_update, detect_events, get_market_day_events and
   broadcast_events: nothing of the store changes; an exception out of any of
   them ends the invocation *)
SnapBroadcast ==
    /\ sn_pc = "committed"
    /\ sn_pc' \in {"cleanup", "raised"}
    /\ SnapKeep
    /\ UNCHANGED <<storeVars, cfgVars, tickVars, retVars, histVars,
                   schedVars, rankVars, pipeVars>>

SnapCleanup ==
    /\ sn_pc = "cleanup"
    /\ \E rn \in Ranked(rows) : rows' = AfterDelete(rows, rn)
    /\ rt_before' = rows
    /\ rt_done' = TRUE
    /\ rt_runs' = IF rt_runs < 2 THEN rt_runs + 1 ELSE 2
    /\ sn_pc' = "returned"
    /\ SnapKeep
    /\ UNCHANGED <<stocks, market, events, next_id, clock, cfgVars, tickVars,
                   histVars, schedVars, rankVars, pipeVars>>

(* the session closes and timed_task passes the return or the exception on *)
SnapExit ==
    /\ sn_pc \in {"returned", "raised", "conflict"}
    /\ sn_pc' = "idle"
    /\ sn_order' = <<>> /\ sn_objs' = Empty /\ previous_stocks' = Empty
    /\ sn_ms' = NoMarketState /\ previous_market_state' = NoMarketState
    /\ UNCHANGED <<storeVars, cfgVars, tickVars, retVars, histVars,
                   schedVars, rankVars, pipeVars>>

----------------------------------------------------------------------------
(* The jobs against one store: price ticks and snapshots, each job one
   invocation at a time, the two jobs interleaving at their awaits *)

IdleSched ==
    /\ instances = Empty /\ fired = Empty /\ skipped = Empty
    /\ submitted = Empty

IdleRank == rk_in = <<>> /\ rk_out = <<>>

IdleAI ==
    /\ tasks = <<>> /\ ai_settings = Empty
    /\ ai_pc = "idle" /\ ai_list = <<>> /\ ai_i = 0 /\ ai_objs = Empty
    /\ ai_orig = Empty /\ ai_env = Empty /\ ai_t0 = 0
    /\ ai_calls = <<>> /\ ai_left = 0

IdleClient == cl_in = Empty /\ cl_out = Empty

(* reset_query_stats(): both counters are zero *)
ResetQueryStats == <<0, 0>>

IdleTimed ==
    /\ tt_pc = "idle" /\ tt_stats = ResetQueryStats /\ tt_call = Empty
    /\ tt_out = Empty /\ tt_log = <<>>

IdlePipe == IdleAI /\ IdleClient /\ IdleTimed

IdleJobs ==
    /\ tk_pc = "idle" /\ tk_objs = Empty /\ tk_orig = Empty
    /\ tk_ms = NoMarketState
    /\ sn_pc = "idle" /\ sn_order = <<>> /\ sn_objs = Empty
    /\ previous_stocks = Empty /\ sn_ms = NoMarketState
    /\ previous_market_state = NoMarketState
    /\ boots = 0 /\ since_close = 0 /\ open_starts = <<>>

(* the state after construction: stocks created through the API, no
   MarketState row yet, no snapshot taken; the settings are drawn from
   spds, ahss and rets, and the run is ticks + snaps invocations long *)
InitWith(spds, ahss, rets, ticks, snaps) ==
    /\ \E pa \in InitStocks :
          /\ stocks = [t \in Tickers |-> NewStock(pa[1][t], pa[2][t])]
          /\ events = [t \in Tickers |->
                          <<[price |-> pa[1][t], change_type |-> "INITIAL"]>>]
    /\ market = NoMarketState
    /\ rows = {} /\ next_id = 1 /\ clock = 1
    /\ spd \in spds /\ ahs \in ahss /\ retention \in rets
    /\ rt_before = {} /\ rt_done = FALSE /\ rt_runs = 0
    /\ ticks_left = ticks /\ snaps_left = snaps
    /\ IdleJobs /\ IdleSched /\ IdleRank /\ IdlePipe

Init == InitWith({1, 2}, {0, 1}, {MainRetention}, MaxTicks, MaxSnaps)

Next ==
    \/ TickLoad \/ TickReadMarket \/ TickCreateMarket \/ TickCommit
    \/ TickFail \/ TickBroadcast \/ TickExit
    \/ SnapLoad \/ SnapReadMarket \/ SnapCreateMarket \/ SnapCommit
    \/ SnapFail \/ SnapBroadcast \/ SnapCleanup \/ SnapExit

Spec == Init /\ [][Next]_vars

----------------------------------------------------------------------------
(* The same jobs when no invocation of one job overlaps one of the other *)

InitSerial ==
    InitWith({1, 2}, {0, 1, 2}, {MainRetention}, SerialTicks, SerialSnaps)

SerialTickLoad == sn_pc = "idle" /\ TickLoad

SerialSnapLoad == tk_pc = "idle" /\ SnapLoad

NextSerial ==
    \/ SerialTickLoad \/ TickReadMarket \/ TickCreateMarket \/ TickCommit
    \/ TickFail \/ TickBroadcast \/ TickExit
    \/ SerialSnapLoad \/ SnapReadMarket \/ SnapCreateMarket \/ SnapCommit
    \/ SnapFail \/ SnapBroadcast \/ SnapCleanup \/ SnapExit

SpecSerial == InitSerial /\ [][NextSerial]_vars

----------------------------------------------------------------------------
(* The jobs, no invocation overlapping another, and the admin's price
   updates (routers/stocks.py, update_stock_price) between the invocations *)

(* the prices an admin posts *)
AdminPrices == {-1, 200}

(* the stock after update_stock_price *)
AdminStockPriceOnly(s, price) == [s EXCEPT !.price = Max0(price)]

AdminStock(s, price) ==
    LET new_price == Max0(price)
    IN  [s EXCEPT
            !.price = new_price,
            !.max_price = IF s.max_price = None \/ new_price > s.max_price
                          THEN new_price ELSE s.max_price,
            !.min_price = IF s.min_price = None \/ new_price < s.min_price
                          THEN new_price ELSE s.min_price]

(* the ADMIN PriceEvents stored *)
AdminCount ==
    LET n(t) == Cardinality({i \in DOMAIN events[t] :
                                events[t][i].change_type = "ADMIN"})
    IN  n("A") + n("B")

UpdateStockPrice ==
    /\ tk_pc = "idle" /\ sn_pc = "idle"
    /\ AdminCount < MaxAdmin
    /\ \E t \in Tickers, price \in AdminPrices :
          /\ stocks' = [stocks EXCEPT ![t] = AdminStock(@, price)]
          /\ events' = [events EXCEPT ![t] =
                           Append(@, [price |-> Max0(price),
                                      change_type |-> "ADMIN"])]
    /\ UNCHANGED <<market, rows, next_id, clock, cfgVars, tickVars, snapVars,
                   retVars, histVars, schedVars, rankVars, pipeVars>>

InitAdmin ==
    InitWith({2}, {1}, {MainRetention}, AdminTicks, AdminSnaps)

NextAdmin == NextSerial \/ UpdateStockPrice

SpecAdmin == InitAdmin /\ [][NextAdmin]_vars


----------------------------------------------------------------------------
(* start_scheduler: the interval jobs of the AsyncIOScheduler.  add_job is
   called without max_instances, so each job runs with the scheduler's
   default of one instance; a run that is due while the job's instance is
   still running is not submitted to the executor. *)

JobIds == {"price_tick", "price_snapshot", "ai_task_processor"}

(* price_snapshot is always added; price_tick if settings.price_tick_enabled,
   ai_task_processor if ai.is_configured() *)
JobSets == {J \in SUBSET JobIds : "price_snapshot" \in J}

MaxInstances == 1

(* the executor accepts the run *)
CanSubmitAlways(j) == TRUE

CanSubmit(j) == instances[j] < MaxInstances

(* the trigger of job j fires *)
Fire(j) ==
    /\ fired[j] < MaxFires
    /\ fired' = [fired EXCEPT ![j] = @ + 1]
    /\ IF CanSubmit(j)
       THEN /\ instances' = [instances EXCEPT ![j] = @ + 1]
            /\ submitted' = [submitted EXCEPT ![j] = @ + 1]
            /\ UNCHANGED skipped
       ELSE /\ skipped' = [skipped EXCEPT ![j] = @ + 1]
            /\ UNCHANGED <<instances, submitted>>

(* a running invocation of job j returns or raises *)
Complete(j) ==
    /\ instances[j] > 0
    /\ instances' = [instances EXCEPT ![j] = @ - 1]
    /\ UNCHANGED <<fired, skipped, submitted>>

IdleStore ==
    /\ stocks = [t \in Tickers |-> NewStock(100, TRUE)]
    /\ events = [t \in Tickers |-> <<>>]
    /\ market = NoMarketState
    /\ spd = 1 /\ ahs = 0
    /\ ticks_left = 0 /\ snaps_left = 0

InitSched ==
    /\ \E J \in JobSets :
          /\ instances = [j \in J |-> 0]
          /\ fired = [j \in J |-> 0]
          /\ skipped = [j \in J |-> 0]
          /\ submitted = [j \in J |-> 0]
    /\ IdleStore /\ IdleJobs /\ IdleRank /\ IdlePipe
    /\ rows = {} /\ next_id = 1 /\ clock = 1 /\ retention = MainRetention
    /\ rt_before = {} /\ rt_done = FALSE /\ rt_runs = 0

TriggerFires ==
    /\ \E j \in DOMAIN instances : Fire(j)
    /\ UNCHANGED <<storeVars, cfgVars, tickVars, snapVars, retVars, histVars,
                   rankVars, pipeVars>>

JobCompletes ==
    /\ \E j \in DOMAIN instances : Complete(j)
    /\ UNCHANGED <<storeVars, cfgVars, tickVars, snapVars, retVars, histVars,
                   rankVars, pipeVars>>

NextSched == TriggerFires \/ JobCompletes

SpecSched == InitSched /\ [][NextSched]_vars

----------------------------------------------------------------------------
(* _update_rankings on its own, over any list of stocks *)

RankPrices == {0, 90, 100}
RankReferences == {None, 0, 100}

(* the lists the pass is given: stocks never ranked, or ranked before *)
RankInputs ==
    UNION {
        {[i \in 1..n |->
             [NewStock(p[i], TRUE) EXCEPT
                 !.reference_price = r[i],
                 !.rank = IF old THEN i ELSE None,
                 !.change_rank = IF old THEN n + 1 - i ELSE None]] :
           p \in [1..n -> RankPrices], r \in [1..n -> RankReferences],
           old \in BOOLEAN}
        : n \in 1..MaxRankN}

InitRank ==
    /\ rk_in \in RankInputs
    /\ rk_out = <<>>
    /\ IdleStore /\ IdleJobs /\ IdleSched /\ IdlePipe
    /\ rows = {} /\ next_id = 1 /\ clock = 1 /\ retention = MainRetention
    /\ rt_before = {} /\ rt_done = FALSE /\ rt_runs = 0

RankPass ==
    /\ rk_out = <<>>
    /\ rk_out' = UpdateRankings(rk_in)
    /\ UNCHANGED <<rk_in, storeVars, cfgVars, tickVars, snapVars, retVars,
                   histVars, schedVars, pipeVars>>

NextRank == RankPass

SpecRank == InitRank /\ [][NextRank]_vars

----------------------------------------------------------------------------
(* _cleanup_old_snapshots on its own, over any StockSnapshot table *)

InitRetention ==
    /\ rows = {} /\ next_id = 1 /\ clock = 1
    /\ retention \in 0..MaxRetention
    /\ rt_before = {} /\ rt_done = FALSE /\ rt_runs = 0
    /\ IdleStore /\ IdleJobs /\ IdleSched /\ IdleRank /\ IdlePipe

(* one StockSnapshot row is added and committed; created_at is the time of
   the insert, which may or may not have moved on since the last one *)
InsertSnapshot ==
    /\ next_id <= MaxRows
    /\ \E t \in Tickers :
          rows' = rows \cup {[id |-> next_id, ticker |-> t,
                              created_at |-> clock, price |-> 100]}
    /\ next_id' = next_id + 1
    /\ clock' \in {clock, clock + 1}
    /\ rt_done' = FALSE /\ rt_runs' = 0
    /\ UNCHANGED <<stocks, market, events, cfgVars, tickVars, snapVars,
                   rt_before, histVars, schedVars, rankVars, pipeVars>>

Cleanup ==
    /\ \E rn \in Ranked(rows) : rows' = AfterDelete(rows, rn)
    /\ rt_before' = rows
    /\ rt_done' = TRUE
    /\ rt_runs' = IF rt_runs < 2 THEN rt_runs + 1 ELSE 2
    /\ UNCHANGED <<stocks, market, events, next_id, clock, cfgVars, tickVars,
                   snapVars, histVars, schedVars, rankVars, pipeVars>>

NextRetention == InsertSnapshot \/ Cleanup

SpecRetention == InitRetention /\ [][NextRetention]_vars


----------------------------------------------------------------------------
(* services/ai.py: the AI client over AtlasCloud (the primary provider) and
   Google AI (the secondary).

   An optional value is a set: Python's None is Nothing, a value v is
   Some(v).  A string the code builds or cuts is the sequence of its
   pieces.  A call's outcome is a record: exc = "none" and the value it
   returned, or the exception class it raised and the exception's text;
   calls lists the provider methods the call reached, in order. *)

Nothing == {}
Some(v) == {v}

Whitespace == {" ", "\n"}

RECURSIVE LStrip(_)
LStrip(s) ==
    IF s # <<>> /\ Head(s) \in Whitespace THEN LStrip(Tail(s)) ELSE s

RECURSIVE RStrip(_)
RStrip(s) ==
    IF s # <<>> /\ s[Len(s)] \in Whitespace
    THEN RStrip(SubSeq(s, 1, Len(s) - 1)) ELSE s

(* str.strip() *)
Strip(s) == RStrip(LStrip(s))

(* sep.join(list) *)
RECURSIVE Join(_, _)
Join(sep, list) ==
    IF list = <<>> THEN <<>>
    ELSE IF Len(list) = 1 THEN list[1]
    ELSE list[1] \o <<sep>> \o Join(sep, Tail(list))

Return(v, calls) == [exc |-> "none", value |-> v, calls |-> calls]
Raise(e, msg, calls) == [exc |-> e, value |-> msg, calls |-> calls]

(* the end of generate_text: no provider returned *)
AllFailed(errors, calls) ==
    IF errors = <<>>
    THEN Raise("AIError",
               <<"No AI providers configured (check API keys in .env)">>,
               calls)
    ELSE Raise("AIError",
               <<"All AI providers failed: ">> \o Join("; ", errors), calls)

(* generate_text tries AtlasCloud unless forced to Google or without key *)
TryPrimary(s) == ~s.force_google_ai /\ s.atlascloud_api_key

FallbackOnlyIfSkipped(s, primary) ==
    ~TryPrimary(s) /\ s.google_ai_api_key

(* generate_text reaches the Google branch: the AtlasCloud branch was not
   entered or it caught AtlasCloudError, and the Google key is set *)
Fallback(s, primary) ==
    /\ ~(TryPrimary(s) /\ primary.exc # "AtlasCloudError")
    /\ s.google_ai_api_key

ErrorsNewestFirst(errors, e) == <<e>> \o errors

(* errors.append(e) *)
ErrorsAppend(errors, e) == Append(errors, e)

(* AIClient.generate_text, atlas and google being what the two providers'
   generate_text do when called *)
GenerateText(s, atlas, google) ==
    LET calls1  == IF TryPrimary(s)
                   THEN <<"atlascloud.generate_text">> ELSE <<>>
        errors1 == IF TryPrimary(s) /\ atlas.exc = "AtlasCloudError"
                   THEN ErrorsAppend(<<>>, <<"AtlasCloud: ">> \o atlas.value)
                   ELSE <<>>
        calls2  == Append(calls1, "google_ai.generate_text")
    IN  IF TryPrimary(s) /\ atlas.exc = "none"
        THEN Return(atlas.value, calls1)
        ELSE IF TryPrimary(s) /\ atlas.exc # "AtlasCloudError"
        THEN Raise(atlas.exc, atlas.value, calls1)
        ELSE IF Fallback(s, atlas)
        THEN IF google.exc = "none"
             THEN Return(google.value, calls2)
             ELSE IF google.exc # "GoogleAIError"
             THEN Raise(google.exc, google.value, calls2)
             ELSE AllFailed(ErrorsAppend(errors1, <<"Google AI: ">>
                                                   \o google.value), calls2)
        ELSE AllFailed(errors1, calls1)

MediaWithFallback(s, atlas, google, method, what) ==
    IF s.atlascloud_api_key /\ atlas.exc = "none"
    THEN Return(atlas.value, <<"atlascloud." \o method>>)
    ELSE IF s.google_ai_api_key
    THEN [google EXCEPT !.calls = <<"google_ai." \o method>>]
    ELSE Raise("AIError", <<what \o " generation failed: ">> \o atlas.value,
               <<>>)

(* AIClient.generate_image and generate_video_from_text: AtlasCloud only *)
Media(s, atlas, google, method, what) ==
    IF ~s.atlascloud_api_key
    THEN Raise("AIError",
               <<what \o " generation requires AtlasCloud API key">>, <<>>)
    ELSE IF atlas.exc = "none"
    THEN Return(atlas.value, <<"atlascloud." \o method>>)
    ELSE IF atlas.exc = "AtlasCloudError"
    THEN Raise("AIError", <<what \o " generation failed: ">> \o atlas.value,
               <<"atlascloud." \o method>>)
    ELSE Raise(atlas.exc, atlas.value, <<"atlascloud." \o method>>)

GenerateImage(s, atlas, google) ==
    Media(s, atlas, google, "generate_image", "Image")

GenerateVideoFromText(s, atlas, google) ==
    Media(s, atlas, google, "generate_video_from_text", "Video")

(* settings.atlascloud_api_key and google_ai_api_key set or empty, and
   settings.force_google_ai *)
AISettings ==
    [atlascloud_api_key : BOOLEAN, google_ai_api_key : BOOLEAN,
     force_google_ai : BOOLEAN]

(* what a provider's generate_* can do: return a text or an id, or raise
   its error; Google's client also lets other exceptions through *)
Texts == {<<"a">>, <<" ", "a", " ", "b", "\n">>}
AtlasOutcomes ==
    {[exc |-> "none", value |-> v] : v \in Texts}
    \cup {[exc |-> "AtlasCloudError", value |-> <<"atlas: 500">>]}
GoogleOutcomes ==
    {[exc |-> "none", value |-> v] : v \in Texts}
    \cup {[exc |-> "GoogleAIError", value |-> <<"API error 429">>],
          [exc |-> "httpx.ReadError", value |-> <<"read failed">>]}

ClientMethods ==
    {"generate_text", "generate_image", "generate_video_from_text"}

ClientResult(in) ==
    CASE in.method = "generate_text" ->
            GenerateText(in.settings, in.atlas, in.google)
      [] in.method = "generate_image" ->
            GenerateImage(in.settings, in.atlas, in.google)
      [] in.method = "generate_video_from_text" ->
            GenerateVideoFromText(in.settings, in.atlas, in.google)

InitClient ==
    /\ cl_in \in [method : ClientMethods, settings : AISettings,
                  atlas : AtlasOutcomes, google : GoogleOutcomes]
    /\ cl_out = <<>>
    /\ IdleAI /\ IdleTimed /\ IdleStore /\ IdleJobs /\ IdleSched /\ IdleRank
    /\ rows = {} /\ next_id = 1 /\ clock = 1 /\ retention = MainRetention
    /\ rt_before = {} /\ rt_done = FALSE /\ rt_runs = 0

ClientCall ==
    /\ cl_out = <<>>
    /\ cl_out' = <<ClientResult(cl_in)>>
    /\ UNCHANGED <<cl_in, aiVars, storeVars, cfgVars, tickVars, snapVars,
                   retVars, histVars, schedVars, rankVars, timedVars>>

NextClient == ClientCall

SpecClient == InitClient /\ [][NextClient]_vars


----------------------------------------------------------------------------
(* process_ai_tasks and its helpers *)

(* settings.ai_task_timeout, in units of the clock *)
AiTaskTimeout == 1

TaskTypes == {"DESCRIPTION", "IMAGE", "VIDEO"}

(* the ids of the AITask rows of a run *)
TaskIds == {1, 2}

(* an AITask as its creator inserts it *)
NewTask(type, now) ==
    [task_type |-> type, status |-> "PENDING", atlascloud_id |-> Nothing,
     result |-> Nothing, error |-> Nothing, created_at |-> now,
     completed_at |-> None]

(* bool(x) of an optional string: None and "" are false *)
Truthy(opt) == opt # Nothing /\ opt # Some(<<>>)

(* what generate_image / generate_video_from_text of the provider can do:
   return an id, return an empty id, or raise *)
SubmitOutcomes ==
    {[exc |-> "none", value |-> <<"ext-1">>],
     [exc |-> "none", value |-> <<>>],
     [exc |-> "AtlasCloudError", value |-> <<"atlas: 500">>]}

(* what get_task_status of the provider can do: return (status, outputs,
   error) or raise *)
PollOutcomes ==
    {[exc |-> "none", status |-> "completed", outputs |-> <<"url-1">>,
      error |-> Nothing],
     [exc |-> "none", status |-> "completed", outputs |-> <<>>,
      error |-> Nothing],
     [exc |-> "none", status |-> "failed", outputs |-> <<>>,
      error |-> Some(<<"nsfw">>)],
     [exc |-> "none", status |-> "processing", outputs |-> <<>>,
      error |-> Nothing],
     [exc |-> "AtlasCloudError", status |-> "", outputs |-> <<>>,
      error |-> Some(<<"atlas: 502">>)]}

(* download_file of the provider, and Path.write_bytes *)
DownloadOutcomes == {"none", "AtlasCloudError"}
WriteOutcomes == {"none", "OSError"}

DefaultEnv ==
    [atlas |-> [exc |-> "none", value |-> <<"a">>],
     google |-> [exc |-> "none", value |-> <<"a">>],
     poll |-> [exc |-> "none", status |-> "processing", outputs |-> <<>>,
               error |-> Nothing],
     download |-> "none", write |-> "none"]

(* what the outside can do while the task is processed; only the calls the
   task can reach are varied (the secondary provider when the primary
   raised, the disk when the download returned) *)
EnvsFor(task) ==
    IF task.status = "PENDING"
    THEN IF task.task_type = "DESCRIPTION"
         THEN {[DefaultEnv EXCEPT !.atlas = a] : a \in AtlasOutcomes}
              \cup {[DefaultEnv EXCEPT !.atlas = a, !.google = g] :
                       a \in {x \in AtlasOutcomes : x.exc # "none"},
                       g \in GoogleOutcomes}
         ELSE {[DefaultEnv EXCEPT !.atlas = a] : a \in SubmitOutcomes}
    ELSE {[DefaultEnv EXCEPT !.poll = q] : q \in PollOutcomes}
         \cup {[DefaultEnv EXCEPT !.poll = q, !.download = d] :
                  q \in {x \in PollOutcomes : x.outputs # <<>>},
                  d \in DownloadOutcomes}
         \cup {[DefaultEnv EXCEPT !.poll = q, !.write = w] :
                  q \in {x \in PollOutcomes : x.outputs # <<>>},
                  w \in WriteOutcomes}

Done(task, calls) ==
    [exc |-> "none", msg |-> <<>>, task |-> task, calls |-> calls]
Raised(e, msg, task, calls) ==
    [exc |-> e, msg |-> msg, task |-> task, calls |-> calls]

SubmitMedia(task, r) ==
    IF r.exc = "none"
    THEN Done([task EXCEPT !.atlascloud_id = Some(r.value),
                           !.status = "PROCESSING"], r.calls)
    ELSE Raised(r.exc, r.value, task, r.calls)

(* _submit_task *)
SubmitTask(task, now, s, env) ==
    CASE task.task_type = "DESCRIPTION" ->
            LET r == GenerateText(s, env.atlas, env.google)
            IN  IF r.exc = "none"
                THEN Done([task EXCEPT !.result = Some(Strip(r.value)),
                                       !.status = "COMPLETED",
                                       !.completed_at = now], r.calls)
                ELSE Raised(r.exc, r.value, task, r.calls)
      [] task.task_type = "IMAGE" ->
            SubmitMedia(task, GenerateImage(s, env.atlas, env.google))
      [] task.task_type = "VIDEO" ->
            SubmitMedia(task, GenerateVideoFromText(s, env.atlas, env.google))

(* the file _download_result writes: directory, task id, extension *)
FilePath(id, task) ==
    IF task.task_type = "IMAGE" THEN <<"images/", id, ".png">>
    ELSE <<"videos/", id, ".mp4">>

(* _download_result, as the outcome of result = await _download_result() *)
DownloadResult(id, task, env) ==
    IF task.task_type \notin {"IMAGE", "VIDEO"}
    THEN Done([task EXCEPT !.result = Nothing], <<>>)
    ELSE IF env.download # "none"
    THEN Raised(env.download, <<"download failed">>, task,
                <<"atlascloud.download_file">>)
    ELSE IF env.write # "none"
    THEN Raised(env.write, <<"disk full">>, task,
                <<"atlascloud.download_file", "write_bytes">>)
    ELSE Done([task EXCEPT !.result = Some(FilePath(id, task))],
              <<"atlascloud.download_file", "write_bytes">>)

(* elapsed > settings.ai_task_timeout *)
TimedOut(task, now) == now - task.created_at > AiTaskTimeout

(* _poll_task *)
PollTask(id, task, now, env) ==
    IF ~Truthy(task.atlascloud_id)
    THEN Done([task EXCEPT !.status = "FAILED",
                           !.error = Some(<<"No external task ID">>)], <<>>)
    ELSE IF TimedOut(task, now)
    THEN Done([task EXCEPT !.status = "FAILED",
                           !.error = Some(<<"Task timed out">>),
                           !.completed_at = now], <<>>)
    ELSE LET q == env.poll
             polled == <<"atlascloud.get_task_status">>
         IN  IF q.exc # "none"
             THEN Raised(q.exc, CHOOSE m \in q.error : TRUE, task, polled)
             ELSE IF q.status = "completed"
             THEN LET d == IF q.outputs # <<>>
                           THEN DownloadResult(id, task, env)
                           ELSE Done(task, <<>>)
                  IN  IF d.exc # "none"
                      THEN Raised(d.exc, d.msg, task, polled \o d.calls)
                      ELSE Done([d.task EXCEPT !.status = "COMPLETED",
                                               !.completed_at = now],
                                polled \o d.calls)
             ELSE IF q.status = "failed"
             THEN Done([task EXCEPT !.status = "FAILED",
                                    !.error = q.error,
                                    !.completed_at = now], polled)
             ELSE Done(task, polled)

(* the exception classes the loop of process_ai_tasks catches *)
Caught == {"AIError", "OSError"}

(* the try body of the loop of process_ai_tasks *)
TryTask(id, task, now, s, env) ==
    IF task.status = "PENDING" THEN SubmitTask(task, now, s, env)
    ELSE IF task.status = "PROCESSING" THEN PollTask(id, task, now, env)
    ELSE Done(task, <<>>)

(* one pass of the loop body of process_ai_tasks: try ... except *)
ProcessTask(id, task, now, s, env) ==
    LET r == TryTask(id, task, now, s, env)
    IN  IF r.exc = "none" \/ r.exc \notin Caught
        THEN r
        ELSE Done([r.task EXCEPT
                      !.status = "FAILED",
                      !.error = IF r.exc = "AIError" THEN Some(r.msg)
                                ELSE Some(<<"I/O error: ">> \o r.msg),
                      !.completed_at = now], r.calls)


SelectedStatusesAny == {"PENDING", "PROCESSING", "COMPLETED", "FAILED"}

(* col(AITask.status).in_([PENDING, PROCESSING]) *)
SelectedStatuses == {"PENDING", "PROCESSING"}

(* an AITask is created by the API: PENDING, created now *)
AiCreate ==
    /\ Len(tasks) + 1 \in TaskIds
    /\ \E type \in TaskTypes : tasks' = Append(tasks, NewTask(type, clock))
    /\ UNCHANGED <<ai_settings, ai_pc, ai_list, ai_i, ai_objs, ai_orig,
                   ai_env, ai_t0, ai_calls, ai_left>>
    /\ UNCHANGED <<storeVars, cfgVars, tickVars, snapVars, retVars, histVars,
                   schedVars, rankVars, clientVars, timedVars>>

(* time passes *)
AiClock ==
    /\ clock < MaxClock
    /\ clock' = clock + 1
    /\ UNCHANGED <<stocks, market, events, rows, next_id, cfgVars, tickVars,
                   snapVars, retVars, histVars, schedVars, rankVars,
                   pipeVars>>

AiKeepStore ==
    UNCHANGED <<storeVars, cfgVars, tickVars, snapVars, retVars, histVars,
                schedVars, rankVars, clientVars, timedVars, ai_settings>>

(* process_ai_tasks starts: the SELECT, and the return when it is empty *)
AiSelect ==
    /\ ai_pc = "idle" /\ ai_left > 0
    /\ LET ids == {i \in DOMAIN tasks : tasks[i].status \in SelectedStatuses}
       IN  /\ \E order \in Orders(ids) : ai_list' = order
           /\ ai_objs' = [i \in ids |-> tasks[i]]
           /\ ai_orig' = [i \in ids |-> tasks[i]]
           /\ ai_pc' = IF ids = {} THEN "returned" ELSE "loop"
    /\ ai_i' = 1 /\ ai_env' = Empty /\ ai_t0' = clock /\ ai_calls' = <<>>
    /\ ai_left' = ai_left - 1
    /\ UNCHANGED tasks
    /\ AiKeepStore

(* the loop body for the next task of the list; an exception the loop does
   not catch leaves the loop and the function *)
AiTask ==
    /\ ai_pc = "loop"
    /\ LET id == ai_list[ai_i]
       IN  \E env \in EnvsFor(ai_objs[id]) :
               LET r == ProcessTask(id, ai_objs[id], clock, ai_settings, env)
               IN  /\ ai_objs' = [ai_objs EXCEPT ![id] = r.task]
                   /\ ai_env' = ai_env @@
                         (id :> [env |-> env, now |-> clock,
                                 exc |-> TryTask(id, ai_objs[id], clock,
                                                 ai_settings, env).exc])
                   /\ ai_calls' = ai_calls \o
                         [k \in DOMAIN r.calls |->
                             [id |-> id, call |-> r.calls[k]]]
                   /\ ai_pc' = IF r.exc # "none" THEN "raised"
                               ELSE IF ai_i = Len(ai_list) THEN "commit"
                               ELSE "loop"
    /\ ai_i' = ai_i + 1
    /\ UNCHANGED <<tasks, ai_list, ai_orig, ai_t0, ai_left>>
    /\ AiKeepStore

(* session.commit() after the loop *)
AiCommit ==
    /\ ai_pc = "commit"
    /\ tasks' = [i \in DOMAIN tasks |->
                    IF i \in DOMAIN ai_objs THEN ai_objs[i] ELSE tasks[i]]
    /\ ai_pc' = "returned"
    /\ UNCHANGED <<ai_list, ai_i, ai_objs, ai_orig, ai_env, ai_t0, ai_calls,
                   ai_left>>
    /\ AiKeepStore

(* the session closes (what was not committed is dropped) and timed_task
   passes the return or the exception on *)
AiExit ==
    /\ ai_pc \in {"returned", "raised"}
    /\ ai_pc' = "idle"
    /\ ai_list' = <<>> /\ ai_i' = 0 /\ ai_objs' = Empty /\ ai_orig' = Empty
    /\ ai_env' = Empty /\ ai_t0' = 0 /\ ai_calls' = <<>>
    /\ UNCHANGED <<tasks, ai_left>>
    /\ AiKeepStore

PipelineSettings == {s \in AISettings : ~s.force_google_ai}

InitAI ==
    /\ tasks = <<>>
    /\ ai_settings \in PipelineSettings
    /\ ai_pc = "idle" /\ ai_list = <<>> /\ ai_i = 0 /\ ai_objs = Empty
    /\ ai_orig = Empty /\ ai_env = Empty /\ ai_t0 = 0 /\ ai_calls = <<>>
    /\ ai_left = MaxRuns
    /\ IdleClient /\ IdleTimed /\ IdleStore /\ IdleJobs /\ IdleSched
    /\ IdleRank
    /\ rows = {} /\ next_id = 1 /\ clock = 1 /\ retention = MainRetention
    /\ rt_before = {} /\ rt_done = FALSE /\ rt_runs = 0

NextAI == AiCreate \/ AiClock \/ AiSelect \/ AiTask \/ AiCommit \/ AiExit

SpecAI == InitAI /\ [][NextAI]_vars

----------------------------------------------------------------------------
(* timed_task: the wrapper the jobs run through.  One call resets the query
   counters, reads the clock, awaits the wrapped job and, in the finally
   block, logs one record of the duration and of the counters; calls follow
   one another and the counters are the module's, shared by the calls. *)

(* what a wrapped job does: it returns a value or raises, having made some
   queries (of 2 ms each) and taken some time (ms) *)
JobRuns ==
    [exc : {"none", "IntegrityError", "AIError"}, value : {None, 1},
     queries : {0, 11}, duration : {100, 101}]

(* the finally block: the record logged, a warning if the call was slow or
   made many queries *)
TimedLogOnReturn(call, end, stats) ==
    IF call.job.exc = "none"
    THEN <<[level |-> IF end - call.start > 100 \/ stats[1] > 10
                      THEN "WARNING" ELSE "DEBUG",
            duration |-> end - call.start,
            db_time |-> stats[2], queries |-> stats[1]]>>
    ELSE <<>>

TimedLog(call, end, stats) ==
    <<[level |-> IF end - call.start > 100 \/ stats[1] > 10
                 THEN "WARNING" ELSE "DEBUG",
       duration |-> end - call.start,
       db_time |-> stats[2], queries |-> stats[1]]>>

(* the wrapper is called: the counters are reset and the clock is read *)
TimedEnter ==
    /\ tt_pc \in {"idle", "done"}
    /\ Len(tt_log) < MaxCalls
    /\ tt_stats' = ResetQueryStats
    /\ \E start \in {0, 7} : tt_call' = [start |-> start]
    /\ tt_out' = Empty
    /\ tt_pc' = "started"
    /\ UNCHANGED tt_log
    /\ UNCHANGED <<storeVars, cfgVars, tickVars, snapVars, retVars, histVars,
                   schedVars, rankVars, aiVars, clientVars>>

(* the await of the wrapped job: the job runs, its queries are counted *)
TimedJob ==
    /\ tt_pc = "started"
    /\ \E job \in JobRuns :
          /\ tt_call' = [start |-> tt_call.start, job |-> job]
          /\ tt_stats' = <<tt_stats[1] + job.queries,
                           tt_stats[2] + 2 * job.queries>>
    /\ tt_pc' = "ran"
    /\ UNCHANGED <<tt_out, tt_log>>
    /\ UNCHANGED <<storeVars, cfgVars, tickVars, snapVars, retVars, histVars,
                   schedVars, rankVars, aiVars, clientVars>>

(* the finally block, and the return or the exception of the job going on
   to the caller *)
TimedFinally ==
    /\ tt_pc = "ran"
    /\ tt_log' = tt_log \o TimedLog(tt_call,
                                    tt_call.start + tt_call.job.duration,
                                    tt_stats)
    /\ tt_out' = [exc |-> tt_call.job.exc, value |-> tt_call.job.value]
    /\ tt_pc' = "done"
    /\ UNCHANGED <<tt_stats, tt_call>>
    /\ UNCHANGED <<storeVars, cfgVars, tickVars, snapVars, retVars, histVars,
                   schedVars, rankVars, aiVars, clientVars>>

InitTimed ==
    /\ IdleTimed /\ IdleAI /\ IdleClient
    /\ IdleStore /\ IdleJobs /\ IdleSched /\ IdleRank
    /\ rows = {} /\ next_id = 1 /\ clock = 1 /\ retention = MainRetention
    /\ rt_before = {} /\ rt_done = FALSE /\ rt_runs = 0

NextTimed == TimedEnter \/ TimedJob \/ TimedFinally

SpecTimed == InitTimed /\ [][NextTimed]_vars


----------------------------------------------------------------------------
(* Properties *)

(* C1: for each scheduled job at most one invocation runs at any time; a
   trigger that fires while the job's previous invocation is still running
   is skipped: it starts nothing, and an invocation starts only in the step
   in which its trigger fires, so a skipped run is neither queued nor run
   later. *)
C1_OneInstanceSkipNotQueue ==
    /\ [](\A j \in DOMAIN instances : instances[j] <= 1)
    /\ [][\A j \in DOMAIN instances :
            /\ (fired'[j] # fired[j] /\ instances[j] >= 1)
                  => /\ instances'[j] = instances[j]
                     /\ submitted'[j] = submitted[j]
                     /\ skipped'[j] = skipped[j] + 1
            /\ instances'[j] > instances[j]
                  => /\ fired'[j] = fired[j] + 1
                     /\ instances[j] = 0]_vars

C1_Witness ==
    \E j \in DOMAIN instances :
        instances[j] = 1 /\ skipped[j] >= 1 /\ submitted[j] >= 2

(* C2: a snapshot invocation that starts with the market Open counts one
   more snapshot; when the count reaches snapshots_per_market_day the
   invocation commits market_day_count + 1, snapshot_count = 0,
   after_hours_snapshot_count = 0 and, if after_hours_snapshots > 0, a closed
   market; below the threshold it commits the incremented count, the market
   Open and market_day_count unchanged. *)
C2_OpenPhase ==
    (sn_pc = "committed" /\ previous_market_state.is_open) =>
        IF previous_market_state.snapshot_count + 1 >= spd
        THEN /\ market.market_day_count =
                    previous_market_state.market_day_count + 1
             /\ market.snapshot_count = 0
             /\ market.after_hours_snapshot_count = 0
             /\ (ahs > 0 => ~market.is_open)
        ELSE /\ market.snapshot_count =
                    previous_market_state.snapshot_count + 1
             /\ market.is_open
             /\ market.market_day_count =
                    previous_market_state.market_day_count

C2_Witness ==
    /\ sn_pc = "committed" /\ previous_market_state.is_open
    /\ previous_market_state.snapshot_count = 1 /\ spd = 2 /\ ahs > 0
    /\ ~market.is_open /\ market.market_day_count = 1

(* the invocation in its committed state has reset the reference of every
   stock it holds: the stored reference, maximum and minimum are the price
   the invocation holds for the stock *)
ReferencesReset ==
    \A t \in DOMAIN sn_objs :
        /\ stocks[t].reference_price = sn_objs[t].price
        /\ stocks[t].max_price = sn_objs[t].price
        /\ stocks[t].min_price = sn_objs[t].price

(* C3: with after_hours_snapshots = 0 the invocation that completes a market
   day commits the market Open and every active stock's reference, maximum
   and minimum equal to its price; and no snapshot invocation commits a
   closed market. *)
C3_NoAfterHours ==
    (sn_pc = "committed" /\ ahs = 0) =>
        /\ market.is_open
        /\ (market.market_day_count # previous_market_state.market_day_count
               => ReferencesReset)

C3_Witness ==
    /\ sn_pc = "committed" /\ ahs = 0
    /\ previous_market_state.is_open
    /\ market.market_day_count = previous_market_state.market_day_count + 1
    /\ \E t \in DOMAIN sn_objs :
          previous_stocks[t].reference_price # sn_objs[t].price

(* C4: a snapshot invocation that starts with the market closed, other than
   the bootstrap, counts one more after-hours snapshot; when the count
   reaches after_hours_snapshots it commits the market Open, the count 0 and
   every active stock's reference, maximum and minimum equal to its price,
   otherwise the market stays closed; so the market reopens in exactly the
   after_hours_snapshots-th committed invocation after the closing one. *)
C4_AfterHoursPhase ==
    (/\ sn_pc = "committed"
     /\ ~previous_market_state.is_open
     /\ ~(/\ previous_market_state.market_day_count = 0
          /\ previous_market_state.snapshot_count = 0)) =>
        IF previous_market_state.after_hours_snapshot_count + 1 >= ahs
        THEN /\ market.is_open
             /\ market.after_hours_snapshot_count = 0
             /\ ReferencesReset
             /\ since_close = ahs
        ELSE /\ ~market.is_open
             /\ market.after_hours_snapshot_count =
                    previous_market_state.after_hours_snapshot_count + 1
             /\ since_close < ahs

C4_Witness ==
    /\ sn_pc = "committed" /\ ahs = 2
    /\ ~previous_market_state.is_open
    /\ previous_market_state.market_day_count = 1
    /\ previous_market_state.after_hours_snapshot_count = 1
    /\ market.is_open
    /\ \E t \in DOMAIN sn_objs :
          previous_stocks[t].reference_price # sn_objs[t].price

(* C5: a snapshot invocation that finds the fresh MarketState (closed, no
   market day, no snapshot counted) opens the market, so that its phase
   update is the one of an Open market, and commits every active stock's
   reference, maximum and minimum as its price; over a whole run at most one
   invocation commits this bootstrap. *)
C5_BootstrapOnce ==
    /\ boots <= 1
    /\ (/\ sn_pc = "committed"
        /\ ~previous_market_state.is_open
        /\ previous_market_state.market_day_count = 0
        /\ previous_market_state.snapshot_count = 0) =>
            /\ ReferencesReset
            /\ IF 1 >= spd
               THEN /\ market.market_day_count = 1
                    /\ market.snapshot_count = 0
                    /\ market.is_open = (ahs = 0)
               ELSE /\ market.market_day_count = 0
                    /\ market.snapshot_count = 1
                    /\ market.is_open

C5_Witness ==
    /\ sn_pc = "committed" /\ boots = 1
    /\ ~previous_market_state.is_open
    /\ previous_market_state.market_day_count >= 1
    /\ \A t \in Tickers : stocks[t].reference_price # None


(* C6: after the ranking pass over N >= 1 stocks the rank values are exactly
   1..N, each given once, and so are the change_rank values. *)
C6_RanksArePermutations ==
    rk_out # <<>> =>
        /\ \A k \in 1..Len(rk_out) :
              /\ Cardinality({i \in 1..Len(rk_out) : rk_out[i].rank = k}) = 1
              /\ Cardinality({i \in 1..Len(rk_out) :
                                 rk_out[i].change_rank = k}) = 1
        /\ \A i \in 1..Len(rk_out) :
              /\ rk_out[i].rank \in 1..Len(rk_out)
              /\ rk_out[i].change_rank \in 1..Len(rk_out)

C6_Witness ==
    /\ Len(rk_out) = 3
    /\ rk_out[1].price = rk_out[2].price
    /\ rk_out[1].reference_price = rk_out[2].reference_price
    /\ rk_out[3].price > rk_out[1].price

(* C7: after the ranking pass every stock without a reference price (its
   percentage change is undefined) has a change_rank greater than that of
   every stock with a reference price. *)
C7_UndefinedChangeLast ==
    \A i, j \in 1..Len(rk_out) :
        (rk_out[i].reference_price = None /\ rk_out[j].reference_price # None)
            => rk_out[i].change_rank > rk_out[j].change_rank

C7_Witness ==
    /\ Len(rk_out) = 3
    /\ rk_out[1].reference_price = None
    /\ rk_out[2].reference_price = 100 /\ rk_out[2].price = 90
    /\ rk_out[3].reference_price = 100 /\ rk_out[3].price = 100
    /\ rk_out[1].change_rank = 3

(* C8: in a committed price tick every stock of the invocation has a stored
   price >= 0 that differs from the price the invocation loaded by at most
   0.05 * loaded price * multiplier, the multiplier being 1 when the
   MarketState the invocation read is Open and the after-hours multiplier
   when it is closed. *)
C8_TickWithinBand ==
    tk_pc = "committed" =>
        \A t \in DOMAIN tk_orig :
            LET before == tk_orig[t].price
                after  == stocks[t].price
                num    == IF tk_ms.is_open THEN 1 ELSE AfterHoursMultNum
                den    == IF tk_ms.is_open THEN 1 ELSE AfterHoursMultDen
            IN  /\ after >= 0
                /\ 100 * den * Abs(after - before) <= 5 * before * num

C8_Witness ==
    /\ tk_pc = "committed"
    /\ ~tk_ms.is_open
    /\ \E t \in DOMAIN tk_orig : stocks[t].price = tk_orig[t].price + 2
    /\ \E t \in DOMAIN tk_orig : stocks[t].price = 0

(* C9: a price tick is all-or-nothing.  The step that commits it stores, for
   every stock the invocation loaded, the new price, each new maximum or
   minimum the invocation set, and one new RANDOM PriceEvent of that price,
   and touches no other stock; every other step of the invocation, the
   failing ones included, changes no stock and no PriceEvent, and a failure
   before the commit leaves the invocation raising. *)
C9_TickAllOrNothing ==
    [][tk_pc' # tk_pc =>
          IF tk_pc' = "committed"
          THEN /\ \A t \in DOMAIN tk_orig :
                     /\ stocks'[t].price = tk_objs'[t].price
                     /\ tk_objs'[t].max_price # tk_orig[t].max_price
                           => stocks'[t].max_price = tk_objs'[t].max_price
                     /\ tk_objs'[t].min_price # tk_orig[t].min_price
                           => stocks'[t].min_price = tk_objs'[t].min_price
                     /\ events'[t] = Append(events[t],
                            [price |-> tk_objs'[t].price,
                             change_type |-> "RANDOM"])
               /\ \A t \in Tickers \ DOMAIN tk_orig :
                     stocks'[t] = stocks[t] /\ events'[t] = events[t]
          ELSE /\ stocks' = stocks
               /\ events' = events
               /\ (tk_pc \in {"stocks", "create", "ready"}
                      /\ tk_pc' \notin {"create", "ready"})
                     => tk_pc' \in {"raised", "conflict"}]_vars

C9_Witness ==
    /\ tk_pc = "committed"
    /\ Cardinality(DOMAIN tk_orig) = 2
    /\ \A t \in DOMAIN tk_orig :
          /\ stocks[t].price # tk_orig[t].price
          /\ Len(events[t]) = 2
    /\ sn_pc = "ready"

(* C10: after the retention cleanup the rows left of each ticker are rows it
   had before, min(retention, count) of them, and none of the ticker's
   deleted rows was created later than one of its kept rows; the rows of the
   other tickers play no part. *)
C10_RetentionKeepsNewest ==
    rt_done =>
        /\ rows \subseteq rt_before
        /\ \A t \in Tickers :
              LET had  == {r \in rt_before : r.ticker = t}
                  kept == {r \in rows : r.ticker = t}
              IN  /\ Cardinality(kept) =
                        IF retention < Cardinality(had)
                        THEN retention ELSE Cardinality(had)
                  /\ \A k \in kept, d \in had \ kept :
                        k.created_at >= d.created_at

C10_Witness ==
    /\ rt_done /\ retention = 2
    /\ Cardinality({r \in rt_before : r.ticker = "A"}) = 3
    /\ Cardinality({r \in rt_before : r.ticker = "B"}) = 1
    /\ Cardinality(rows) = 3
    /\ \E x, y \in rt_before :
          x # y /\ x.ticker = "A" /\ y.ticker = "A"
          /\ x.created_at = y.created_at /\ x \in rows /\ y \notin rows

(* C11: a retention cleanup that runs right after a cleanup, no snapshot
   inserted in between, deletes no row: it leaves the StockSnapshot table as
   the first cleanup left it, whichever numbering the window function
   produces. *)
C11_CleanupIdempotent ==
    [][(rt_runs >= 1 /\ rt_runs' >= 1) => rows' = rows]_vars

C11_Witness ==
    /\ rt_runs = 2
    /\ rt_before = rows
    /\ Cardinality({r \in rows : r.ticker = "A"}) = retention
    /\ retention >= 1
    /\ Cardinality(rows) < next_id - 1

(* the call of the AI client that has returned or raised *)
ClientOut == cl_out[1]
ClientCalled(c) == \E i \in DOMAIN ClientOut.calls : ClientOut.calls[i] = c
TextCallDone == cl_out # <<>> /\ cl_in.method = "generate_text"

(* C15: generate_text, the primary provider configured, not skipped and
   failing, the secondary configured and succeeding, returns the
   secondary's result and raises nothing; when the primary is tried and
   succeeds, its result is returned and the secondary is never called. *)
C15_TextFallsBackToSecondary ==
    TextCallDone =>
        LET s == cl_in.settings
        IN  /\ (/\ s.atlascloud_api_key /\ ~s.force_google_ai
                /\ cl_in.atlas.exc = "AtlasCloudError"
                /\ s.google_ai_api_key /\ cl_in.google.exc = "none") =>
                    /\ ClientOut.exc = "none"
                    /\ ClientOut.value = cl_in.google.value
                    /\ ClientOut.calls = <<"atlascloud.generate_text",
                                           "google_ai.generate_text">>
            /\ (/\ s.atlascloud_api_key /\ ~s.force_google_ai
                /\ cl_in.atlas.exc = "none") =>
                    /\ ClientOut.exc = "none"
                    /\ ClientOut.value = cl_in.atlas.value
                    /\ ~ClientCalled("google_ai.generate_text")

C15_Witness ==
    /\ TextCallDone
    /\ cl_in.settings.atlascloud_api_key /\ ~cl_in.settings.force_google_ai
    /\ cl_in.atlas.exc = "AtlasCloudError"
    /\ cl_in.settings.google_ai_api_key /\ cl_in.google.exc = "none"
    /\ ClientOut.exc = "none"
    /\ ClientOut.value = <<" ", "a", " ", "b", "\n">>

(* C16: generate_text raises the 'not configured' AIError exactly when it
   called no provider, which is when the primary is skipped or has no key
   and the secondary has no key; it raises the aggregated AIError exactly
   when it called at least one provider and every provider it called raised
   its provider error, and the text lists those errors, each under its
   provider's name, in the order of the calls. *)
C16_TextErrors ==
    TextCallDone =>
        LET s == cl_in.settings
            notConfigured ==
                /\ ClientOut.exc = "AIError"
                /\ ClientOut.value =
                     <<"No AI providers configured (check API keys in .env)">>
            primary == ClientCalled("atlascloud.generate_text")
            secondary == ClientCalled("google_ai.generate_text")
            failures ==
                (IF primary
                 THEN <<"AtlasCloud: ", cl_in.atlas.value[1]>> ELSE <<>>)
                \o (IF primary /\ secondary THEN <<"; ">> ELSE <<>>)
                \o (IF secondary
                    THEN <<"Google AI: ", cl_in.google.value[1]>> ELSE <<>>)
            allFailed ==
                /\ primary \/ secondary
                /\ primary => cl_in.atlas.exc = "AtlasCloudError"
                /\ secondary => cl_in.google.exc = "GoogleAIError"
        IN  /\ notConfigured <=> ClientOut.calls = <<>>
            /\ ClientOut.calls = <<>> <=>
                  /\ s.force_google_ai \/ ~s.atlascloud_api_key
                  /\ ~s.google_ai_api_key
            /\ allFailed <=>
                  /\ ClientOut.exc = "AIError"
                  /\ ClientOut.value =
                        <<"All AI providers failed: ">> \o failures
            /\ ClientOut.exc = "AIError" => notConfigured \/ allFailed

C16_Witness ==
    /\ TextCallDone
    /\ ClientOut.exc = "AIError"
    /\ ClientOut.value = <<"All AI providers failed: ", "AtlasCloud: ",
                           "atlas: 500", "; ", "Google AI: ",
                           "API error 429">>

(* C17: generate_image and generate_video_from_text call the primary
   provider only: without its key they raise an AIError and call no
   provider; when it raises its error they raise an AIError with that error
   and do not call the secondary, whether or not the secondary has a key. *)
C17_MediaPrimaryOnly ==
    (cl_out # <<>> /\ cl_in.method # "generate_text") =>
        LET s == cl_in.settings
            call == "atlascloud." \o cl_in.method
        IN  /\ ~s.atlascloud_api_key =>
                  /\ ClientOut.exc = "AIError"
                  /\ ClientOut.calls = <<>>
            /\ (s.atlascloud_api_key
                /\ cl_in.atlas.exc = "AtlasCloudError") =>
                  /\ ClientOut.exc = "AIError"
                  /\ ClientOut.value[2] = cl_in.atlas.value[1]
                  /\ ClientOut.calls = <<call>>
            /\ (s.atlascloud_api_key /\ cl_in.atlas.exc = "none") =>
                  /\ ClientOut = Return(cl_in.atlas.value, <<call>>)

C17_Witness ==
    /\ cl_out # <<>> /\ cl_in.method = "generate_video_from_text"
    /\ cl_in.settings.atlascloud_api_key /\ cl_in.settings.google_ai_api_key
    /\ cl_in.atlas.exc = "AtlasCloudError" /\ cl_in.google.exc = "none"
    /\ ClientOut.exc = "AIError"
    /\ ClientOut.calls = <<"atlascloud.generate_video_from_text">>

(* the position of a status in the lifecycle of an AITask *)
StatusRank(status) ==
    CASE status = "PENDING" -> 0
      [] status = "PROCESSING" -> 1
      [] status \in {"COMPLETED", "FAILED"} -> 2

(* C12: over any sequence of pipeline invocations the stored status of an
   AITask never moves backward (so a PROCESSING task never returns to
   PENDING); a COMPLETED or FAILED task keeps its status, result and error
   and is never among the tasks an invocation selects. *)
C12_StatusNeverBackward ==
    [][/\ \A i \in DOMAIN tasks :
             /\ i \in DOMAIN tasks'
             /\ StatusRank(tasks'[i].status) >= StatusRank(tasks[i].status)
             /\ tasks[i].status \in {"COMPLETED", "FAILED"} =>
                   /\ tasks'[i].status = tasks[i].status
                   /\ tasks'[i].result = tasks[i].result
                   /\ tasks'[i].error = tasks[i].error
       /\ \A i \in DOMAIN ai_orig' :
             ai_orig'[i].status \notin {"COMPLETED", "FAILED"}]_vars

C12_Witness ==
    /\ ai_pc = "returned" /\ ai_left = 0
    /\ \E i, j \in DOMAIN tasks :
          /\ i \notin DOMAIN ai_orig /\ tasks[i].status = "COMPLETED"
          /\ j \in DOMAIN ai_orig /\ ai_orig[j].status = "PROCESSING"
          /\ tasks[j].status = "FAILED"

(* an invocation of process_ai_tasks has returned or raised, and whatever
   was raised while its tasks were processed was a provider's error, the AI
   client's error or an I/O error *)
BatchEnded ==
    /\ ai_pc \in {"returned", "raised"}
    /\ \A id \in DOMAIN ai_env :
          ai_env[id].exc \in {"none", "AIError", "OSError", "AtlasCloudError"}

CallsFor(id) == {k \in DOMAIN ai_calls : ai_calls[k].id = id}

(* C13: once an invocation has run, a task it found PROCESSING with an
   external id and older than ai_task_timeout is stored FAILED with the
   timeout error, and the invocation made no provider call for it (no poll,
   no download), whatever the provider would have reported. *)
C13_TimedOutFailsUnpolled ==
    BatchEnded =>
        \A id \in DOMAIN ai_orig :
            (/\ ai_orig[id].status = "PROCESSING"
             /\ Truthy(ai_orig[id].atlascloud_id)
             /\ ai_t0 - ai_orig[id].created_at > AiTaskTimeout) =>
                /\ tasks[id].status = "FAILED"
                /\ tasks[id].error = Some(<<"Task timed out">>)
                /\ CallsFor(id) = {}

(* C14: once an invocation has run, every task of its batch was processed
   and is stored as processed, a task for which the submit, the poll, the
   download or the write raised is stored FAILED with the error's text, and
   the invocation returned: no such error ended the batch. *)
C14_ErrorsCaughtPerTask ==
    BatchEnded =>
        /\ ai_pc = "returned"
        /\ \A id \in DOMAIN ai_orig :
              /\ id \in DOMAIN ai_env
              /\ tasks[id] = ai_objs[id]
              /\ ai_env[id].exc # "none" =>
                    /\ tasks[id].status = "FAILED"
                    /\ tasks[id].error # Nothing

(* r is t without its leading and trailing whitespace *)
IsTrimOf(r, t) ==
    /\ \E i \in 0..Len(t), j \in 0..Len(t) :
          /\ i + Len(r) + j = Len(t)
          /\ \A k \in 1..i : t[k] \in Whitespace
          /\ \A k \in 1..j : t[Len(t) + 1 - k] \in Whitespace
          /\ \A k \in 1..Len(r) : r[k] = t[i + k]
    /\ r # <<>> => (r[1] \notin Whitespace /\ r[Len(r)] \notin Whitespace)

(* C18: once an invocation has run, a task it found PENDING and submitted
   successfully is stored COMPLETED with the trimmed text as result when it
   is a DESCRIPTION task, and stored PROCESSING with the id the provider
   returned and no result when it is an IMAGE or VIDEO task. *)
C18_SubmitMovesTask ==
    BatchEnded =>
        \A id \in DOMAIN ai_env :
            (ai_orig[id].status = "PENDING" /\ ai_env[id].exc = "none") =>
                LET e == ai_env[id].env
                IN  IF ai_orig[id].task_type = "DESCRIPTION"
                    THEN /\ tasks[id].status = "COMPLETED"
                         /\ \E r \in tasks[id].result :
                               IsTrimOf(r, GenerateText(ai_settings, e.atlas,
                                                        e.google).value)
                    ELSE /\ tasks[id].status = "PROCESSING"
                         /\ tasks[id].atlascloud_id = Some(e.atlas.value)
                         /\ tasks[id].result = Nothing

(* C19: once an invocation has run, a task it found PROCESSING without an
   external id is stored FAILED with the 'no external task id' error,
   timed out or not, and the invocation made no provider call for it. *)
C19_NoExternalIdFails ==
    BatchEnded =>
        \A id \in DOMAIN ai_orig :
            (/\ ai_orig[id].status = "PROCESSING"
             /\ ~Truthy(ai_orig[id].atlascloud_id)) =>
                /\ tasks[id].status = "FAILED"
                /\ tasks[id].error = Some(<<"No external task ID">>)
                /\ CallsFor(id) = {}

(* C20: once an invocation has run, a task it found PROCESSING with an
   external id, not timed out when it was polled, is stored COMPLETED when
   the poll said 'completed' (and the output, if any, was downloaded and
   written), FAILED with the provider's error when the poll said 'failed',
   and with its status, result and error as they were when the poll said
   anything else. *)
C20_PollMovesTask ==
    BatchEnded =>
        \A id \in DOMAIN ai_env :
            (/\ ai_orig[id].status = "PROCESSING"
             /\ Truthy(ai_orig[id].atlascloud_id)
             /\ ~(ai_env[id].now - ai_orig[id].created_at > AiTaskTimeout)
             /\ ai_env[id].env.poll.exc = "none") =>
                LET e == ai_env[id].env
                IN  CASE e.poll.status = "completed" ->
                            (e.poll.outputs = <<>>
                             \/ (e.download = "none" /\ e.write = "none"))
                                => tasks[id].status = "COMPLETED"
                      [] e.poll.status = "failed" ->
                            /\ tasks[id].status = "FAILED"
                            /\ tasks[id].error = e.poll.error
                      [] OTHER ->
                            /\ tasks[id].status = ai_orig[id].status
                            /\ tasks[id].result = ai_orig[id].result
                            /\ tasks[id].error = ai_orig[id].error

----------------------------------------------------------------------------
(* C21: however the invocations of the price tick and of the snapshot
   interleave, an invocation that has got the market state has found or left
   the MarketState row with id 1 in the table, and no invocation raises
   because the row it was about to create had been created by the other
   job's invocation in the meantime. *)
C21_OneMarketStateNoConflict ==
    /\ (tk_pc \in {"ready", "committed"}
          \/ sn_pc \in {"ready", "committed", "cleanup"}) => market.present
    /\ tk_pc # "conflict"
    /\ sn_pc # "conflict"

(* C22: a snapshot invocation that has committed its batch has run the
   retention cleanup by the time it returns or raises, also when the
   broadcast or the event detection after the commit raised. *)
C22_CleanupFollowsCommit ==
    (sn_pc \in {"returned", "raised"} /\ previous_stocks # Empty) => rt_done

(* C23: the step that commits a price tick appends to the PriceEvents of
   each active stock one event, of change_type RANDOM and of the stock's new
   price, and to those of no other stock; no step of the jobs appends
   otherwise, and none changes or removes a PriceEvent already stored. *)
C23_TickAppendsOneEvent ==
    [][\A t \in Tickers :
          LET n == Len(events[t])
              ticked == /\ tk_pc = "ready" /\ tk_pc' = "committed"
                        /\ stocks[t].is_active
          IN  /\ Len(events'[t]) = IF ticked THEN n + 1 ELSE n
              /\ SubSeq(events'[t], 1, n) = events[t]
              /\ ticked => events'[t][n + 1] =
                              [price |-> stocks'[t].price,
                               change_type |-> "RANDOM"]]_vars

C23_Witness ==
    /\ tk_pc = "returned"
    /\ sn_pc = "cleanup"
    /\ \A t \in Tickers :
          /\ Len(events[t]) = 2
          /\ events[t][1].change_type = "INITIAL"
          /\ events[t][2] = [price |-> stocks[t].price, change_type |-> "RANDOM"]
    /\ events["A"][2].price # events["A"][1].price

(* the fields of a Stock that only snapshot_prices writes *)
RankingFields ==
    {"rank", "change_rank", "previous_rank", "previous_change_rank",
     "reference_price"}

(* C24: the step that commits a snapshot invocation adds one StockSnapshot
   row for each active stock and none for another, the row carrying the
   price the invocation holds for the stock, and the same step stores the
   ranks and the reference price the invocation computed and its
   MarketState; no other step of the invocation stores any of them (the
   creation of a missing MarketState row and the deletions of the cleanup
   apart), so an invocation that does not commit stores none. *)
C24_SnapshotOneCommit ==
    [][sn_pc' # sn_pc =>
          IF sn_pc' = "committed"
          THEN /\ rows \subseteq rows'
               /\ \A t \in Tickers :
                     LET new == {r \in rows' \ rows : r.ticker = t}
                     IN  /\ Cardinality(new) =
                               IF stocks[t].is_active THEN 1 ELSE 0
                         /\ \A r \in new : r.price = sn_objs[t].price
               /\ \A t \in DOMAIN sn_objs : \A f \in RankingFields :
                     stocks'[t][f] = sn_objs'[t][f]
               /\ market' = sn_ms'
          ELSE /\ stocks' = stocks
               /\ rows' \subseteq rows
               /\ rows' # rows => sn_pc = "cleanup"
               /\ market' # market => (sn_pc = "create" /\ ~market.present)
      ]_vars

C24_Witness ==
    /\ sn_pc = "committed"
    /\ Cardinality(rows) = 2
    /\ \E r \in rows : r.price # stocks[r.ticker].price
    /\ \A t \in Tickers : stocks[t].rank \in {1, 2}
                          /\ stocks[t].reference_price = sn_objs[t].price
    /\ market.is_open

(* C25: when a price-tick or a snapshot invocation broadcasts its stocks, its
   commit has succeeded: the store holds the prices the tick set, and the
   ranks, the reference prices and the MarketState the snapshot set.  The
   broadcast, whether it returns or raises, changes nothing of the store. *)
C25_BroadcastAfterCommit ==
    /\ [](/\ tk_pc = "committed" =>
               \A t \in DOMAIN tk_objs : stocks[t].price = tk_objs[t].price
          /\ sn_pc = "committed" =>
               /\ market = sn_ms
               /\ \A t \in DOMAIN sn_objs : \A f \in RankingFields :
                     stocks[t][f] = sn_objs[t][f])
    /\ [][((tk_pc = "committed" /\ tk_pc' # "committed")
             \/ (sn_pc = "committed" /\ sn_pc' # "committed"))
          => UNCHANGED storeVars]_vars

C25_Witness ==
    /\ tk_pc = "raised" /\ sn_pc = "raised"
    /\ previous_stocks # Empty
    /\ market.present /\ market = sn_ms /\ market # previous_market_state
    /\ \A t \in Tickers :
          /\ Len(events[t]) = 2
          /\ stocks[t].price = tk_objs[t].price
          /\ stocks[t].rank = sn_objs[t].rank
          /\ stocks[t].rank # previous_stocks[t].rank
    /\ stocks["A"].price # tk_orig["A"].price

(* C26: the previous stocks and the previous MarketState that a snapshot
   invocation hands to the event detection are the stocks and the
   MarketState as the invocation read them, before the ranking, the state
   machine and the reference reset changed the session's objects; they stay
   so until the invocation ends, and what the commit stores is the changed
   objects, never these copies. *)
C26_PreviousIsPreMutation ==
    [][/\ (sn_pc = "ready" /\ sn_pc' = "committed") =>
            /\ previous_stocks' = sn_objs
            /\ previous_market_state' = sn_ms
            /\ \A t \in DOMAIN sn_objs : \A f \in RankingFields :
                  /\ previous_stocks'[t][f] = stocks[t][f]
                  /\ sn_objs'[t][f] # previous_stocks'[t][f]
                        => stocks'[t][f] # previous_stocks'[t][f]
            /\ previous_market_state' = market
            /\ sn_ms' # previous_market_state'
                  => market' # previous_market_state'
       /\ (sn_pc \in {"committed", "cleanup"} /\ sn_pc' # "idle") =>
            UNCHANGED <<previous_stocks, previous_market_state>>]_vars

C26_Witness ==
    /\ sn_pc = "committed"
    /\ previous_stocks["A"].rank = 1 /\ sn_objs["A"].rank = 2
    /\ stocks["A"].rank = 2 /\ stocks["A"].previous_rank = 1
    /\ previous_stocks["A"].reference_price # sn_objs["A"].reference_price
    /\ ~previous_market_state.is_open /\ sn_ms.is_open /\ market.is_open

(* C27: a call of timed_task's wrapper that has ended has returned the value
   its job returned, or raised the exception its job raised; it has logged
   one record, the only one since it started, and the query count of the
   record is that of the job's own queries, the counters having been reset
   before the job started. *)
C27_TimedTaskPassesThrough ==
    /\ [](tt_pc = "done" =>
            /\ tt_out.exc = tt_call.job.exc
            /\ tt_out.value = tt_call.job.value
            /\ tt_log # <<>>
            /\ tt_log[Len(tt_log)].queries = tt_call.job.queries
            /\ tt_log[Len(tt_log)].duration = tt_call.job.duration)
    /\ [][/\ tt_pc' = "started" => (tt_stats' = <<0, 0>> /\ tt_log' = tt_log)
          /\ tt_pc' = "ran" => tt_log' = tt_log
          /\ (tt_pc = "ran" /\ tt_pc' = "done") =>
                Len(tt_log') = Len(tt_log) + 1]_vars

C27_Witness ==
    /\ tt_pc = "done"
    /\ Len(tt_log) = 2
    /\ tt_log[1].queries = 11 /\ tt_log[1].level = "WARNING"
    /\ tt_log[2].queries = 0 /\ tt_log[2].level = "DEBUG"
    /\ tt_out.exc = "IntegrityError"
    /\ tt_call.start = 7

(* C28: every market day that has been completed, the first one included,
   had exactly snapshots_per_market_day committed snapshot invocations that
   started with the market open, the one that closed it among them. *)
C28_DayOfSpdOpenStarts ==
    \A d \in 1..market.market_day_count :
        d \in DOMAIN open_starts /\ open_starts[d] = spd

(* C29: after the ranking pass, of any two stocks the one of the higher
   price has the lower rank, and of any two stocks with a percentage change
   the one of the higher change has the lower change_rank; the
   previous_rank and the previous_change_rank of each stock are the rank and
   the change_rank it had before the pass. *)
C29_RanksFollowOrder ==
    rk_out # <<>> =>
        /\ \A i, j \in 1..Len(rk_out) :
              /\ rk_out[i].price > rk_out[j].price
                    => rk_out[i].rank < rk_out[j].rank
              /\ (/\ PctDefined(rk_out[i]) /\ PctDefined(rk_out[j])
                  /\ FracLess(Pct(rk_out[j]), Pct(rk_out[i])))
                    => rk_out[i].change_rank < rk_out[j].change_rank
        /\ \A i \in 1..Len(rk_out) :
              /\ rk_out[i].previous_rank = rk_in[i].rank
              /\ rk_out[i].previous_change_rank = rk_in[i].change_rank
              /\ rk_out[i].price = rk_in[i].price
              /\ rk_out[i].reference_price = rk_in[i].reference_price

C29_Witness ==
    /\ Len(rk_out) = 3
    /\ rk_out[1].price = 90 /\ rk_out[2].price = 100 /\ rk_out[3].price = 0
    /\ \A i \in 1..3 : rk_out[i].reference_price = 100
    /\ rk_out[1].rank = 2 /\ rk_out[1].previous_rank = 1
    /\ rk_out[2].change_rank = 1 /\ rk_out[2].previous_change_rank = 2
    /\ rk_out[3].change_rank = 3 /\ rk_out[3].previous_change_rank = 1

(* C30: the range a price tick draws its deltas from ends at 0.05 * price *
   the after-hours multiplier when the MarketState the tick read is closed,
   and at 0.05 * price when it is open (the tick of the model draws one of
   the two ends for each stock); and as long as no snapshot invocation has
   opened the market, the MarketState a tick gets, found or created by
   itself, is closed. *)
C30_MultiplierFollowsMarket ==
    [][/\ (tk_pc = "ready" /\ tk_pc' = "committed") =>
            \A t \in DOMAIN tk_orig :
                LET p == tk_orig[t].price
                IN  Abs(stocks'[t].price - p) =
                       IF tk_ms.is_open
                       THEN (p * TickPctNum) \div TickPctDen
                       ELSE (p * TickPctNum * AfterHoursMultNum)
                               \div (TickPctDen * AfterHoursMultDen)
       /\ (tk_pc # "ready" /\ tk_pc' = "ready" /\ boots = 0) =>
            (tk_ms'.present /\ ~tk_ms'.is_open)]_vars

C30_Witness ==
    /\ tk_pc = "committed"
    /\ tk_ms.is_open /\ boots = 1
    /\ tk_orig["A"].price = 100 /\ stocks["A"].price = 105

(* C31: a snapshot invocation and a price-tick invocation that find no
   active stock return at once; while no stock is active no step of the jobs
   changes the MarketState, the StockSnapshot rows, the PriceEvents or
   anything else of the store, no invocation gets to its broadcast or to the
   retention cleanup, and no cleanup is recorded. *)
C31_NoStocksNoOp ==
    [][(\A t \in Tickers : ~stocks[t].is_active) =>
          /\ (sn_pc = "idle" /\ sn_pc' # "idle") => sn_pc' = "returned"
          /\ (tk_pc = "idle" /\ tk_pc' # "idle") => tk_pc' = "returned"
          /\ sn_pc' \notin {"stocks", "create", "ready", "committed", "cleanup"}
          /\ tk_pc' \notin {"stocks", "create", "ready", "committed"}
          /\ UNCHANGED <<storeVars, retVars>>]_vars

C31_Witness ==
    /\ \A t \in Tickers : ~stocks[t].is_active /\ Len(events[t]) = 1
    /\ sn_pc = "returned" /\ tk_pc = "returned"
    /\ ~market.present /\ rows = {} /\ ~rt_done

(* the reference fields of a Stock (reference_price_at, not a field of the
   model, is assigned wherever reference_price is) *)
ReferenceFields == {"reference_price", "max_price", "min_price"}

(* the snapshot invocation that commits in this step has opened the market:
   it started with the market closed and ends with it open or with a market
   day completed (the bootstrap), or it completed a market day and ends with
   the market open (the immediate reopen) *)
OpensMarket ==
    \/ /\ ~sn_ms.is_open
       /\ \/ market'.is_open
          \/ market'.market_day_count # sn_ms.market_day_count
    \/ /\ sn_ms.is_open /\ market'.is_open
       /\ market'.market_day_count # sn_ms.market_day_count

(* C32: the step that commits a snapshot invocation which does not open the
   market leaves the stored reference_price, max_price and min_price of every
   stock as they were, and so does every other step of a snapshot
   invocation. *)
C32_ReferenceOnlyAtOpen ==
    [][(sn_pc' # sn_pc
          /\ ~(sn_pc = "ready" /\ sn_pc' = "committed" /\ OpensMarket)) =>
            \A t \in Tickers : \A f \in ReferenceFields :
                stocks'[t][f] = stocks[t][f]]_vars

C32_Witness ==
    /\ sn_pc = "committed"
    /\ ~market.is_open
    /\ market.market_day_count = previous_market_state.market_day_count
    /\ market.after_hours_snapshot_count = 1
    /\ \E t \in Tickers :
          /\ stocks[t].reference_price \notin {None, stocks[t].price}
          /\ stocks[t].max_price # stocks[t].min_price

(* C33: the MarketState a snapshot invocation has committed (with
   snapshots_per_market_day >= 1) has, when open, after_hours_snapshot_count
   0 and 0 <= snapshot_count < snapshots_per_market_day, and when closed,
   snapshot_count 0 and 0 <= after_hours_snapshot_count <
   after_hours_snapshots; and no step makes market_day_count smaller or
   larger by more than 1. *)
C33_CountersInRange ==
    /\ [](sn_pc = "committed" =>
             IF market.is_open
             THEN /\ market.after_hours_snapshot_count = 0
                  /\ market.snapshot_count >= 0
                  /\ market.snapshot_count < spd
             ELSE /\ market.snapshot_count = 0
                  /\ market.after_hours_snapshot_count >= 0
                  /\ market.after_hours_snapshot_count < ahs)
    /\ [][/\ market'.market_day_count >= market.market_day_count
          /\ market'.market_day_count <= market.market_day_count + 1]_vars

C33_Witness ==
    /\ sn_pc = "committed"
    /\ spd = 2 /\ market.is_open
    /\ market.snapshot_count = 1 /\ market.market_day_count = 1
    /\ previous_market_state.snapshot_count = 0

(* C34: whatever price ticks, snapshot invocations and admin price updates
   have run, none overlapping another, every stored stock whose max_price
   and min_price are set has min_price <= price <= max_price. *)
C34_PriceWithinMinMax ==
    \A t \in Tickers :
        (stocks[t].max_price # None /\ stocks[t].min_price # None) =>
            /\ stocks[t].min_price <= stocks[t].price
            /\ stocks[t].price <= stocks[t].max_price

C34_Witness ==
    /\ tk_pc = "idle" /\ sn_pc = "idle"
    /\ ticks_left = 0 /\ snaps_left = 0 /\ AdminCount = 1
    /\ stocks["A"].reference_price = 200
    /\ stocks["A"].price # 200
    /\ stocks["A"].min_price < stocks["A"].max_price

(* C35: however a price-tick invocation and a snapshot invocation interleave,
   each committing what it computed on the rows it read, no stored stock has
   a max_price below its price or a min_price above its price. *)
C35_OverlapKeepsMinMax ==
    \A t \in Tickers :
        /\ stocks[t].max_price # None => stocks[t].price <= stocks[t].max_price
        /\ stocks[t].min_price # None => stocks[t].min_price <= stocks[t].price

(* the MarketState fields of the state machine *)
MarketFields ==
    {"is_open", "market_day_count", "snapshot_count",
     "after_hours_snapshot_count"}

(* C36: no step of a snapshot invocation changes the stored price of a stock
   or the stored PriceEvents; no step of a price-tick invocation changes the
   stored rank, change_rank, previous_rank, previous_change_rank or
   reference_price of a stock, or is_open or a counter of a MarketState that
   exists. *)
C36_JobsKeepToTheirFields ==
    [][/\ sn_pc' # sn_pc =>
            /\ \A t \in Tickers : stocks'[t].price = stocks[t].price
            /\ events' = events
       /\ tk_pc' # tk_pc =>
            /\ \A t \in Tickers : \A f \in RankingFields :
                  stocks'[t][f] = stocks[t][f]
            /\ \A f \in MarketFields : market'[f] = market[f]]_vars

C36_Witness ==
    /\ sn_pc = "committed" /\ tk_pc = "committed"
    /\ market.is_open /\ market.snapshot_count = 1
    /\ \A t \in Tickers :
          /\ stocks[t].rank \in {1, 2} /\ stocks[t].reference_price # None
          /\ Len(events[t]) = 2
    /\ stocks["A"].price # sn_objs["A"].price
    /\ stocks["A"].rank # tk_objs["A"].rank

(* C37: every stored AITask that is COMPLETED or FAILED has completed_at
   set, by whichever path the pipeline made it terminal. *)
C37_TerminalHasCompletedAt ==
    \A id \in DOMAIN tasks :
        tasks[id].status \in {"COMPLETED", "FAILED"} =>
            tasks[id].completed_at # None

----------------------------------------------------------------------------
(* process_ai_tasks under its interval trigger: the scheduler keeps firing
   the job, every started invocation runs on to its end, and time passes *)

(* the interval trigger fires again once the budget of invocations is used *)
AiTrigger ==
    /\ ai_pc = "idle" /\ ai_left = 0
    /\ ai_left' = 1
    /\ UNCHANGED <<tasks, ai_pc, ai_list, ai_i, ai_objs, ai_orig, ai_env,
                   ai_t0, ai_calls>>
    /\ AiKeepStore

(* tasks are created while the clock of the run still goes on to outlast
   them: more than ai_task_timeout before the last time *)
AiCreateEarly == MaxClock - clock > AiTaskTimeout /\ AiCreate

NextAIFair ==
    AiCreateEarly \/ AiClock \/ AiSelect \/ AiTask \/ AiCommit \/ AiExit
    \/ AiTrigger

AiFairness ==
    /\ WF_vars(AiTrigger) /\ WF_vars(AiSelect) /\ WF_vars(AiTask)
    /\ WF_vars(AiCommit) /\ WF_vars(AiExit) /\ WF_vars(AiClock)

SpecAIFair == InitAI /\ [][NextAIFair]_vars /\ AiFairness

Terminal(id) ==
    id \in DOMAIN tasks /\ tasks[id].status \in {"COMPLETED", "FAILED"}

Unfinished(id) ==
    id \in DOMAIN tasks /\ tasks[id].status \in SelectedStatuses

(* C38: with the job invoked again and again and time passing the timeout,
   every stored PENDING or PROCESSING task is eventually stored COMPLETED
   or FAILED, whatever the providers answer. *)
C38_EveryTaskTerminates ==
    \A id \in TaskIds : Unfinished(id) ~> Terminal(id)

(* C39: once an invocation has run, every task it found PENDING and whose
   submission to a provider succeeded is stored PROCESSING or COMPLETED, so
   that no later invocation selects it as PENDING and submits it again,
   whatever another task of the batch raised. *)
C39_SubmittedOnce ==
    BatchEnded =>
        \A id \in DOMAIN ai_env :
            (/\ ai_orig[id].status = "PENDING"
             /\ ai_env[id].exc = "none"
             /\ CallsFor(id) # {}) =>
                tasks[id].status \in {"PROCESSING", "COMPLETED"}

(* C40: a price tick that finds an active stock at price 0 leaves it at 0,
   whether the market is open or in after-hours, and appends a RANDOM
   PriceEvent of price 0 to its history. *)
C40_ZeroIsAbsorbing ==
    [][\A t \in Tickers :
          (/\ tk_pc = "ready" /\ tk_pc' = "committed"
           /\ stocks[t].is_active /\ stocks[t].price = 0) =>
              /\ stocks'[t].price = 0
              /\ events'[t] = Append(events[t], [price |-> 0,
                                                 change_type |-> "RANDOM"])]_vars

C40_Witness ==
    /\ tk_pc = "committed" /\ tk_ms.is_open
    /\ tk_orig["A"].price = 0 /\ stocks["A"].price = 0
    /\ LET n == Len(events["A"])
       IN  /\ n = 3
           /\ events["A"][1] = [price |-> 100, change_type |-> "INITIAL"]
           /\ events["A"][2] = [price |-> 0, change_type |-> "ADMIN"]
           /\ events["A"][3] = [price |-> 0, change_type |-> "RANDOM"]

====
